---- MODULE Spec2Model ----
(***************************************************************************)
(* A model of the Cherry toolchain: the bit/byte value layer (bytes.py),   *)
(* the register file and virtual machine (machine.py) and the two-pass     *)
(* assembler (assembler.py).                                               *)
(*                                                                         *)
(* Values are kept as the code keeps them: a Byte/ByteArray is a list of   *)
(* bits, least significant first.  Registers and memory are stored here as *)
(* sequences of bytes (every list of bits the machine stores has a length  *)
(* that is a multiple of 8); the conversions go through the bit lists.     *)
(***************************************************************************)
EXTENDS Integers, Sequences, FiniteSets, TLC

VARIABLES
    bsize,      \* bytes.py: size argument of the last ByteArray(size, data)
    bdata,      \* bytes.py: integer data argument of that construction
    bbits,      \* bytes.py: ByteArray.bits after construction (<<>>: none yet)
    regs,       \* Machine.register_names: register name -> its bytes
    written,    \* history: the registers write_to_register was called on
    line,       \* assembler.py: the source line handed to assemble_instruction
    emitted,    \* assembler.py: what assemble_instruction returned or raised
    source,     \* assemble_file: the lines of the source file
    allow_overwrite, \* assemble_file: its allow_overwrite argument
    asm,        \* the Assembler's fields
    stage,      \* assemble_file: where it is ("exit": it returned or raised)
    raised,     \* assemble_file: the exception it raised ("" if none)
    files,      \* the temporary and the destination file on disk
    hist,       \* history: the destination beforehand, the output of the
                \* line loop, the jumps emitted and where labels were defined
    program,    \* the bytecode file: its leading bytes and its length
    memory,     \* Machine.memory
    halted,     \* Machine.halted
    crashed,    \* the exception that ended Machine.run ("" if none)
    operation_counter, \* Machine.operation_counter
    vmstage,    \* "constructed", then "running" once execute_file has loaded
    trail,      \* history: the state before each of the last two steps
    frames      \* history: the state around each CALL not yet returned from

bytesVars == <<bsize, bdata, bbits>>
regVars == <<regs, written>>
encVars == <<line, emitted>>
asmVars == <<source, allow_overwrite, asm, stage, raised, files, hist>>
vmVars == <<program, memory, halted, crashed, operation_counter, vmstage, trail, frames>>

(***************************************************************************)
(* bytes.py                                                                *)
(***************************************************************************)

Max0(n) == IF n > 0 THEN n ELSE 0

RECURSIVE Pow2(_)
Pow2(n) == IF n = 0 THEN 1 ELSE 2 * Pow2(n - 1)

RECURSIVE Zeros(_)
Zeros(n) == IF n <= 0 THEN <<>> ELSE <<0>> \o Zeros(n - 1)

\* zero_pad(ls, length): ls[:length] + [0 for _ in range(len(ls), length)]
zero_pad(ls, length) ==
    IF Len(ls) >= length THEN SubSeq(ls, 1, length)
    ELSE ls \o Zeros(length - Len(ls))

\* f"{data:b}": the binary digits of a non-negative integer, most
\* significant first
RECURSIVE BinDigits(_)
BinDigits(n) == IF n < 2 THEN <<n>> ELSE BinDigits(n \div 2) \o <<n % 2>>

\* s.rjust(length, "0")
rjust(s, length) == Zeros(length - Len(s)) \o s

\* ls reversed
RECURSIVE Reversed(_)
Reversed(ls) ==
    IF Len(ls) = 0 THEN <<>>
    ELSE Reversed(SubSeq(ls, 2, Len(ls))) \o <<ls[1]>>

\* s[:-(length+1):-1]: the last `length` characters of s, last one first
ReverseTail(s, length) ==
    Reversed(SubSeq(s, Max0(Len(s) - length) + 1, Len(s)))

\* A plausible slip: the digits are kept in printing order (no reversal).
convert_to_bits_msb_first(data, length) ==
    LET d == IF data < 0 THEN data + Pow2(length) ELSE data
        s == rjust(BinDigits(d), length)
    IN  SubSeq(s, Max0(Len(s) - length) + 1, Len(s))

\* convert_to_bits(data: int, length)
convert_to_bits(data, length) ==
    LET d == IF data < 0 THEN data + Pow2(length) ELSE data
    IN  ReverseTail(rjust(BinDigits(d), length), length)

\* int("".join(str(g) for g in bits.__reversed__()), 2)
RECURSIVE ValueFrom(_, _)
ValueFrom(bits, i) ==
    IF i > Len(bits) THEN 0 ELSE bits[i] + 2 * ValueFrom(bits, i + 1)

Byte_value(bits) == ValueFrom(bits, 1)

\* ByteArray.signed_int(): value - 2 ** (size * 8) when the top bit is set
ByteArray_signed_int(bits) ==
    Byte_value(bits) - (IF bits[Len(bits)] = 1 THEN Pow2(Len(bits)) ELSE 0)

\* ByteArray.bytes: [Byte(self.bits[g*8:g*8+8]) for g in range(self.size)],
\* each Byte given here by its value
RECURSIVE BytesFrom(_, _)
BytesFrom(bits, g) ==
    IF 8 * g > Len(bits) THEN <<>>
    ELSE <<Byte_value(SubSeq(bits, 8 * g - 7, 8 * g))>> \o BytesFrom(bits, g + 1)

ByteArray_bytes(bits) == BytesFrom(bits, 1)

\* The bits of a list of Bytes given by their values:
\* [j for g in bts for j in g.bits]
RECURSIVE BitsOfBytes(_)
BitsOfBytes(bts) ==
    IF Len(bts) = 0 THEN <<>>
    ELSE convert_to_bits(bts[1], 8) \o BitsOfBytes(SubSeq(bts, 2, Len(bts)))

(***************************************************************************)
(* Bounds of the byte-layer specification                                  *)
(***************************************************************************)
MaxWidth == 2
SampleWindow == 260

\* The integers a k-byte array is built from: windows around 0, the sign
\* boundaries and the top of the unsigned range (every value when the width
\* is one byte), and the multiples of 257 in between.
Clip(lo, hi, S) == {n \in S : n >= lo /\ n <= hi}

ByteInputs(k) ==
    LET top == Pow2(8 * k)
        half == Pow2(8 * k - 1)
        win(c) == (c - SampleWindow)..(c + SampleWindow)
    IN  Clip(0 - half, top - 1,
             win(0) \cup win(half) \cup win(top) \cup win(0 - half)
                 \cup {257 * j : j \in (0 - 128)..255})

BytesInit ==
    /\ bsize \in 1..MaxWidth
    /\ bdata \in ByteInputs(bsize)
    /\ bbits = <<>>

\* ByteArray(size, data) for an integer data
NewByteArray ==
    /\ bbits = <<>>
    /\ bbits' = convert_to_bits(bdata, 8 * bsize)
    /\ UNCHANGED <<bsize, bdata>>

\* The byte layer before any construction (its state in the other specifications)
BytesIdle ==
    /\ bsize = 1
    /\ bdata = 0
    /\ bbits = <<>>


\* C9: little-endian round trip.  For every width k and every unsigned n in
\* [0, 2^(8k)), ByteArray(k, n).value = n and byte i holds digit i of n in
\* base 256 (byte 0 least significant); for every signed m in
\* [-2^(8k-1), 2^(8k-1) - 1], ByteArray(k, m).signed_int() = m.
C9_RoundTrip ==
    bbits # <<>> =>
        /\ Len(bbits) = 8 * bsize
        /\ bdata >= 0 =>
              /\ Byte_value(bbits) = bdata
              /\ \A i \in 1..bsize :
                    ByteArray_bytes(bbits)[i] = (bdata \div Pow2(8 * (i - 1))) % 256
        /\ (bdata >= 0 - Pow2(8 * bsize - 1) /\ bdata < Pow2(8 * bsize - 1)) =>
              ByteArray_signed_int(bbits) = bdata

\* C9 witness: a two-byte array built from a negative value whose two bytes
\* differ, so byte order and the sign both matter.
C9_Witness ==
    /\ bbits # <<>>
    /\ bsize = 2
    /\ bdata = 0 - 255
    /\ ByteArray_bytes(bbits) = <<1, 255>>
(***************************************************************************)
(* Python list slicing on sequences (0-based bounds, clipped to the list)  *)
(***************************************************************************)
Min(a, b) == IF a < b THEN a ELSE b
Max(a, b) == IF a > b THEN a ELSE b

\* ls[a:b]
PySlice(ls, a, b) ==
    LET lo == Min(a, Len(ls))
        hi == Min(b, Len(ls))
    IN  IF hi <= lo THEN <<>> ELSE SubSeq(ls, lo + 1, hi)

\* ls[a:b] = new
PySliceAssign(ls, a, b, new) ==
    PySlice(ls, 0, a) \o new \o PySlice(ls, Max(a, b), Len(ls))

(***************************************************************************)
(* The register table (registers.json).  GA carries a three-level alias    *)
(* chain GA > GAX > GAL with GAH beside GAL; GB..GE carry one byte alias.  *)
(***************************************************************************)
RegNames ==
    {"GA", "GAX", "GAL", "GAH", "GB", "GBL", "GC", "GCL", "GD", "GDL",
     "GE", "GEL", "IP", "SP", "FL", "RI", "RS"}

RegSize ==
    [n \in RegNames |->
        CASE n \in {"GA", "GB", "GC", "GD", "GE"} -> 4
          [] n \in {"GAX", "IP", "SP", "RI", "RS"} -> 2
          [] OTHER -> 1]

\* Register.children: alias name -> byte offset, as a set of pairs
RegChildren ==
    [n \in RegNames |->
        CASE n = "GA" -> {<<"GAX", 0>>}
          [] n = "GAX" -> {<<"GAL", 0>>, <<"GAH", 1>>}
          [] n = "GB" -> {<<"GBL", 0>>}
          [] n = "GC" -> {<<"GCL", 0>>}
          [] n = "GD" -> {<<"GDL", 0>>}
          [] n = "GE" -> {<<"GEL", 0>>}
          [] OTHER -> {}]

\* Register.pointer
RegPointer ==
    [n \in RegNames |->
        CASE n = "GA" -> 0 [] n = "GB" -> 1 [] n = "GC" -> 2 [] n = "GD" -> 3
          [] n = "GE" -> 4 [] n = "GAX" -> 8 [] n = "GAL" -> 9 [] n = "GAH" -> 10
          [] n = "GBL" -> 11 [] n = "GCL" -> 12 [] n = "GDL" -> 13
          [] n = "GEL" -> 14 [] n = "IP" -> 16 [] n = "SP" -> 17 [] n = "FL" -> 18
          [] n = "RI" -> 19 [] n = "RS" -> 20]

\* Register.op_add (-1: not addressable by an op-add byte)
RegOpAdd ==
    [n \in RegNames |->
        CASE n \in {"GA", "GAX", "GAL"} -> 0
          [] n \in {"GB", "GBL"} -> 1
          [] n \in {"GC", "GCL"} -> 2
          [] n \in {"GD", "GDL"} -> 3
          [] n \in {"GE", "GEL"} -> 4
          [] OTHER -> 0 - 1]

(***************************************************************************)
(* machine.py: Register and the register file of Machine                   *)
(***************************************************************************)

\* Data handed to a write: an integer, or the bits of a Byte/ByteArray
\* (kept as its byte values).
IntData(n) == [kind |-> "int", v |-> n]
BytesData(bts) == [kind |-> "bytes", v |-> bts]

\* Register.write: self.bits = convert_to_bits(data, length=self.size * 8),
\* the result given as `size` byte values
\* (a ByteArray's bits are padded or cut in whole bytes: both lengths are
\* multiples of 8)
Register_write(size, data) ==
    IF data.kind = "int"
    THEN ByteArray_bytes(convert_to_bits(data.v, size * 8))
    ELSE zero_pad(data.v, size)

\* Register.write_at(address, data, no_bytes) on a register of `size` bytes
\* holding `bts`; data is an integer (child.value) of no_bytes bytes here
Register_write_at(bts, size, address, data, no_bytes) ==
    LET new == ByteArray_bytes(convert_to_bits(data, no_bytes * 8))
        put == PySliceAssign(bts, address, address + no_bytes, new)
    IN  IF address + no_bytes > size THEN PySlice(put, 0, size) ELSE put

\* Machine.__init__: parent_registers = {j: g for g in registers for j in g.children}
HasParent(name) == \E p \in RegNames : \E c \in RegChildren[p] : c[1] = name
parent_registers(name) ==
    CHOOSE p \in RegNames : \E c \in RegChildren[p] : c[1] = name
ChildOffset(parent, name) ==
    (CHOOSE c \in RegChildren[parent] : c[1] = name)[2]

\* Machine.copy_change_to_parent(child, parent), recursive up the chain
RECURSIVE copy_change_to_parent(_, _, _)
copy_change_to_parent(rs, child, parent) ==
    LET rs1 == [rs EXCEPT ![parent] =
                   Register_write_at(rs[parent], RegSize[parent],
                                     ChildOffset(parent, child),
                                     Byte_value(BitsOfBytes(rs[child])),
                                     RegSize[child])]
    IN  IF HasParent(parent)
        THEN copy_change_to_parent(rs1, parent, parent_registers(parent))
        ELSE rs1

\* The children loop of write_to_register:
\* for k, v in register.children.items(): get_register(k).write(register.bytes[v:])
RECURSIVE WriteChildrenOf(_, _, _)
WriteChildrenOf(rs, name, cs) ==
    IF cs = {} THEN rs
    ELSE LET c == CHOOSE x \in cs : TRUE
         IN  WriteChildrenOf(
                 [rs EXCEPT ![c[1]] =
                     Register_write(RegSize[c[1]],
                         BytesData(PySlice(rs[name], c[2], Len(rs[name]))))],
                 name, cs \ {c})

WriteChildren(rs, name) == WriteChildrenOf(rs, name, RegChildren[name])

\* A plausible slip: the write reaches the children but is not copied up.
write_to_register_no_parent(rs, name, data) ==
    WriteChildren([rs EXCEPT ![name] = Register_write(RegSize[name], data)], name)

\* A plausible slip: the write is copied to the parent but no further up.
write_to_register_parent_only(rs, name, data) ==
    LET rs1 == [rs EXCEPT ![name] = Register_write(RegSize[name], data)]
        rs2 == WriteChildren(rs1, name)
        parent == parent_registers(name)
    IN  IF HasParent(name)
        THEN [rs2 EXCEPT ![parent] =
                 Register_write_at(rs2[parent], RegSize[parent],
                                   ChildOffset(parent, name),
                                   Byte_value(BitsOfBytes(rs2[name])), RegSize[name])]
        ELSE rs2

\* Machine.write_to_register(pointer, data)
write_to_register(rs, name, data) ==
    LET rs1 == [rs EXCEPT ![name] = Register_write(RegSize[name], data)]
        rs2 == WriteChildren(rs1, name)
    IN  IF HasParent(name)
        THEN copy_change_to_parent(rs2, name, parent_registers(name))
        ELSE rs2

\* Register.from_json with no "data": every register starts at zero
ZeroRegs == [n \in RegNames |-> Zeros(RegSize[n])]

(***************************************************************************)
(* Register-file specification: sequences of write_to_register calls       *)
(***************************************************************************)
\* The registers written and the data written to them
WriteTargets == {"GA", "GAX", "GAL", "GAH"}
WriteData ==
    {BytesData(<<17, 18, 19, 20>>), BytesData(<<33, 34>>), BytesData(<<49>>),
     IntData(0), IntData(0 - 2), IntData(66051)}

RegInit ==
    /\ regs = ZeroRegs
    /\ written = {}

\* (a negative integer is written to registers of at most two bytes: the
\* code adds 2^(8*size) to it, which for four bytes exceeds the integers here)
WriteToRegister ==
    \E name \in WriteTargets :
        \E data \in WriteData :
            /\ (data.kind = "int" /\ data.v < 0) => RegSize[name] <= 2
            /\ regs' = write_to_register(regs, name, data)
            /\ written' = written \cup {name}


\* The bytes of parent R that child C aliases: R.bytes[k : k + size(C)]
AliasSlice(rs, R, C) ==
    PySlice(rs[R], ChildOffset(R, C), ChildOffset(R, C) + RegSize[C])

\* C1: for any sequence of write_to_register calls that target a register R
\* or its direct child alias C (at byte offset k of R), after every call the
\* value of C equals bytes [k, k + size(C)) of R.
C1_AliasConsistent ==
    \A R \in RegNames :
        \A c \in RegChildren[R] :
            written \subseteq {R, c[1]} => regs[c[1]] = AliasSlice(regs, R, c[1])

\* C1 witness: both GAX and its child GAH (offset 1) have been written, last
\* the child, and the parent shows the child's non-zero byte at its offset.
C1_Witness ==
    /\ written = {"GAX", "GAH"}
    /\ regs["GAH"] = <<49>>
    /\ regs["GAX"] = <<33, 49>>

(***************************************************************************)
(* The opcode table (instructions.json).  The codes follow the fields the  *)
(* machine decodes: bit 0 the width, bits 1..2 the form, bits 4..7 the     *)
(* family; the two-operand families sit in the families that carry a full  *)
(* op-add byte, the conditional prefixes have bits 5..7 = 6.               *)
(***************************************************************************)
TwoArgCores == {"MOV", "CMP", "ADD", "SUB", "AND", "OR", "XOR"}

TwoArgBase ==
    [c \in TwoArgCores |->
        CASE c = "MOV" -> 48 [] c = "CMP" -> 56 [] c = "ADD" -> 64
          [] c = "SUB" -> 72 [] c = "AND" -> 96 [] c = "OR" -> 104
          [] c = "XOR" -> 112]

TwoArgSuffixes == <<"B", "W", "LITINDB", "LITINDW", "LITMEMB", "LITMEMW">>
\* bytes of the declared args: the op-add byte, the address, the immediate
TwoArgArgBytes == <<1, 1, 2, 5, 3, 6>>

\* The shifts: the forms with an op-add byte sit in the family that always
\* carries one, the forms with an address in a family that carries none
ShiftCores == {"LSH", "RSH"}
ShiftBase == [c \in ShiftCores |-> IF c = "LSH" THEN 176 ELSE 184]
ShiftSuffixes == <<"B", "W", "MEMB", "MEMW">>
ShiftCodeOffset == <<0, 1, 0 - 48, 0 - 47>>
\* bytes of the declared args: the op-add byte or the address, the count
ShiftArgBytes == <<2, 2, 3, 3>>

\* BBIT-0 .. BBIT-3: the byte index is the suffix of the mnemonic and the
\* two low bits of the code; the operand is named by an op-add byte
ByteIndexes == 0..3
ByteIndexSuffix == [k \in ByteIndexes |-> <<"0", "1", "2", "3">>[k + 1]]
BbitCode == [k \in ByteIndexes |-> 188 + k]

\* aliases.json: the mnemonics that stand for another one
AliasCores == {"ASH", "ROT"}
instruction_aliases == [c \in AliasCores |-> IF c = "ASH" THEN "RSH" ELSE "LSH"]

CondCores == {"IFZ", "IFNZ", "IFN", "IFNN", "IFGT", "IFLT", "IFGTE", "IFLTE"}

CondCode ==
    [c \in CondCores |->
        CASE c = "IFZ" -> 192 [] c = "IFNZ" -> 193 [] c = "IFN" -> 194
          [] c = "IFNN" -> 195 [] c = "IFGT" -> 196 [] c = "IFLT" -> 197
          [] c = "IFGTE" -> 198 [] c = "IFLTE" -> 199]

Instr(code, core, suffix, arg_bytes) ==
    [code |-> code, core |-> core, suffix |-> suffix, arg_bytes |-> arg_bytes]

\* instructions.json: code, mnemonic (core and suffix), bytes of the args
Instructions ==
    {Instr(TwoArgBase[c] + i - 1, c, TwoArgSuffixes[i], TwoArgArgBytes[i]) :
        c \in TwoArgCores, i \in 1..6}
    \cup {Instr(CondCode[c], c, "", 0) : c \in CondCores}
    \cup {Instr(1, "HLT", "", 0), Instr(16, "JMP", "", 2), Instr(17, "JREL", "", 1),
          Instr(18, "CALL", "MEM", 2), Instr(19, "CALL", "REG", 1),
          Instr(20, "RET", "", 0),
          Instr(160, "PUSH", "RB", 1), Instr(161, "PUSH", "RW", 1),
          Instr(162, "POP", "B", 1), Instr(163, "POP", "W", 1),
          Instr(168, "PUSH", "LB", 1), Instr(169, "PUSH", "LW", 1)}
    \cup {Instr(ShiftBase[c] + ShiftCodeOffset[i], c, ShiftSuffixes[i], ShiftArgBytes[i]) :
            c \in ShiftCores, i \in 1..4}
    \cup {Instr(BbitCode[k], "BBIT", ByteIndexSuffix[k], 1) : k \in ByteIndexes}

\* The assembly-level argument kinds each mnemonic accepts, per position
\* (the asm_args of instructions.json)
AsmArgs(core) ==
    CASE core \in TwoArgCores ->
             <<{"reg", "ind", "lit", "mem"}, {"reg", "ind", "mem"}>>
      [] core = "PUSH" -> <<{"reg", "lit"}>>
      [] core = "POP" -> <<{"reg"}>>
      [] core = "JMP" -> <<{"mem", "reference"}>>
      [] core = "JREL" -> <<{"lit"}>>
      [] core = "CALL" -> <<{"reg", "ind", "mem", "reference"}>>
      [] core \in ShiftCores -> <<{"reg", "ind", "mem"}, {"lit"}>>
      [] core = "BBIT" -> <<{"reg", "ind"}, {"lit"}, {"lit"}>>
      [] OTHER -> <<>>

\* bytes.py: opcodes = {g["code"]: Instruction.from_json(g) ...}
InOpcodes(code) == \E g \in Instructions : g.code = code
opcodes(code) == CHOOSE g \in Instructions : g.code = code

\* Instruction.base_length: 1 + sum(g["bytes"] for g in self.args)
base_length(code) == 1 + opcodes(code).arg_bytes

\* Byte.mnemonic: the table's mnemonic, "NOP" for a code not in the table
mnemonic_core(code) == IF InOpcodes(code) THEN opcodes(code).core ELSE "NOP"
mnemonic_suffix(code) == IF InOpcodes(code) THEN opcodes(code).suffix ELSE ""

(***************************************************************************)
(* assembler.py: Argument                                                  *)
(***************************************************************************)
Argument(type, value, lit_size) ==
    [type |-> type, value |-> value, lit_size |-> lit_size]

\* Argument.null()
Argument_null == Argument("null", 0, 0)

\* register_pointers[pointer]
HasPointer(p) == \E n \in RegNames : RegPointer[n] = p
register_pointers(p) == CHOOSE n \in RegNames : RegPointer[n] = p

\* Argument.__len__
Argument_len(arg) ==
    IF arg.type = "lit" THEN arg.lit_size
    ELSE IF arg.type = "mem" THEN 2
    ELSE IF arg.type = "null" THEN 0 ELSE 1

\* Argument.size
Argument_size(arg) ==
    IF arg.type = "lit" THEN arg.lit_size
    ELSE IF arg.type = "reg" THEN RegSize[register_pointers(arg.value)]
    ELSE 0

\* The value n + 2 ** 32 of a negative 4-byte literal is beyond the integers
\* of the model: such an Argument keeps n as its value, and its bits are
\* those of n + 2 ** 32, the lowest `length` of them
LiteralBits(value, length) ==
    IF value >= 0 THEN convert_to_bits(value, length)
    ELSE IF length < 31 THEN convert_to_bits(value % Pow2(length), length)
    ELSE zero_pad(convert_to_bits((value + 1) + (Pow2(30) - 1) + Pow2(30), 31)
                      \o <<1>>, length)

\* Argument.__bytes__
Argument_bytes(arg) ==
    IF arg.type = "reference" THEN <<0, 0>>
    ELSE ByteArray_bytes(LiteralBits(arg.value, 8 * Argument_len(arg)))

(***************************************************************************)
(* assembler.py: Assembler.  A source line is given by its tokens:         *)
(*   label  - the label defined at the start of the line ("" if none)      *)
(*   cond   - the conditional mnemonic before the instruction ("" if none) *)
(*   core   - the instruction mnemonic before any "-" ("" on a blank line) *)
(*   suffix - what follows the "-" ("" if there is none)                   *)
(*   args   - the raw arguments                                            *)
(* and a raw argument by its kind: "name" (a bare identifier), "at"        *)
(* (@name), "mem" (#n), "dec"/"hex" (n with width suffix, 0 for none),     *)
(* "bin", or "unclosed" (a string that is never closed).                   *)
(***************************************************************************)
Raw(kind, name, n, width) == [kind |-> kind, name |-> name, n |-> n, width |-> width]
RName(name) == Raw("name", name, 0, 0)
RAt(name) == Raw("at", name, 0, 0)
RMem(n) == Raw("mem", "", n, 0)
RDec(n) == Raw("dec", "", n, 0)
RDecW(n, w) == Raw("dec", "", n, w)
RHex(n) == Raw("hex", "", n, 0)
RHexW(n, w) == Raw("hex", "", n, w)
RBin(n) == Raw("bin", "", n, 0)
RUnclosed == Raw("unclosed", "", 0, 0)

Line(label, cond, core, suffix, args) ==
    [label |-> label, cond |-> cond, core |-> core, suffix |-> suffix, args |-> args,
     indent |-> FALSE]

\* The line with white space in front of it
Indented(raw) == [raw EXCEPT !.indent = TRUE]

\* name.upper() and name.lower(): the names of the model are in capitals but
\* for these
Fold(name) ==
    CASE name \in {"Loop", "loop"} -> "LOOP"
      [] name = "ga" -> "GA"
      [] name = "hlt" -> "HLT"
      [] OTHER -> name

\* The names that read as a hexadecimal literal ([0-9a-f]+h), with the
\* number they denote; no name that begins a line as a label reads as a
\* decimal literal
HexNames == {"FFH"}
HexNameValue == [name \in HexNames |-> 255]

\* Assembler.mnemonics keys, and vague_mnemonics (the cores of the keys
\* that have a suffix)
IsMnemonic(core, suffix) ==
    \E g \in Instructions : g.core = core /\ g.suffix = suffix
IsVague(core) == \E g \in Instructions : g.core = core /\ g.suffix # ""
mnemonics(core, suffix) ==
    (CHOOSE g \in Instructions : g.core = core /\ g.suffix = suffix).code

\* Assembler.check_for_alias(mnemonic), on the core of the mnemonic
check_for_alias(core) ==
    IF core \in AliasCores THEN instruction_aliases[core] ELSE core

\* raw_mnemonic in self.valid_mnemonics; the keys of an aliased core are
\* duplicated under the alias
valid_mnemonic(core, suffix) ==
    \/ IsMnemonic(check_for_alias(core), suffix)
    \/ suffix = "" /\ IsVague(check_for_alias(core))

\* Assembler.integer_arg_length
integer_arg_length(n, width) ==
    IF width # 0 THEN width
    ELSE IF 0 - 127 <= n /\ n <= 255 THEN 1 ELSE 4

\* m <= 2 ** bits - 1, for the integers of the model (all below 2^31)
AtMostPow2Minus1(m, bits) == bits >= 31 \/ m <= Pow2(bits) - 1

\* 0 <= n + 2 ** bits, for the integers of the model (all above -2^31)
AtLeastMinusPow2(n, bits) == bits >= 31 \/ 0 <= n + Pow2(bits)

\* Assembler.is_valid_dec_literal (the text matched -?[0-9]+(:[14])?); for
\* a negative n, n + 2 ** bits is below 2 ** bits
is_valid_dec_literal(n, width) ==
    LET length == integer_arg_length(n, width)
    IN  IF n < 0 THEN AtLeastMinusPow2(n, length * 8)
        ELSE AtMostPow2Minus1(n, length * 8)

\* Assembler.is_valid_hex_literal
is_valid_hex_literal(n, width) ==
    AtMostPow2Minus1(n, integer_arg_length(n, width) * 8)

Interp(ok, arg) == [ok |-> ok, arg |-> arg]
InterpError == Interp(FALSE, Argument_null)

\* Assembler.interpret_argument(argument, force_size)
interpret_argument(raw, force_size, named_references) ==
    CASE raw.kind = "name" ->
             IF Fold(raw.name) \in RegNames /\ RegOpAdd[Fold(raw.name)] # 0 - 1
             THEN Interp(TRUE, Argument("reg", RegPointer[Fold(raw.name)], 0))
             ELSE IF Fold(raw.name) \in named_references
             THEN Interp(TRUE, Argument("reference", Fold(raw.name), 0))
             ELSE InterpError
      [] raw.kind = "bin" ->
             Interp(TRUE, Argument("lit", raw.n,
                                   IF force_size # 0 THEN force_size ELSE 1))
      [] raw.kind = "hex" ->
             IF ~is_valid_hex_literal(raw.n, raw.width) THEN InterpError
             ELSE Interp(TRUE, Argument("lit", raw.n,
                      IF force_size # 0 THEN force_size
                      ELSE integer_arg_length(raw.n, raw.width)))
      [] raw.kind = "mem" -> Interp(TRUE, Argument("mem", raw.n, 0))
      [] raw.kind = "at" ->
             IF raw.name \notin RegNames THEN InterpError
             ELSE Interp(TRUE, Argument("ind", RegPointer[raw.name], 0))
      [] raw.kind = "dec" ->
             IF ~is_valid_dec_literal(raw.n, raw.width) THEN InterpError
             ELSE LET bts == integer_arg_length(raw.n, raw.width)
                  IN  Interp(TRUE, Argument("lit",
                          IF raw.n < 0 /\ bts < 4 THEN raw.n + Pow2(bts * 8)
                          ELSE raw.n, bts))
      [] OTHER -> InterpError


\* bytes(Byte(ret)): the byte with the given bits 0..2, 3..5 and 6..7
OpAddByte(low, mid, b6, b7) ==
    Byte_value(zero_pad(low, 3) \o zero_pad(mid, 3) \o <<b6, b7>>)

\* self.register_pointers[secondary.value] exists (else KeyError)
op_add_secondary_known(secondary) ==
    secondary.kind = "int" \/ HasPointer(secondary.arg.value)

SecInt(n) == [kind |-> "int", n |-> n, arg |-> Argument_null]
SecArg(arg) == [kind |-> "arg", n |-> 0, arg |-> arg]

\* A plausible slip: a literal primary always announces an immediate, zero
\* or not.
assemble_op_add_lit_always(primary, secondary) ==
    LET low == IF secondary.kind = "int" THEN convert_to_bits(secondary.n, 3)
               ELSE convert_to_bits(RegOpAdd[register_pointers(secondary.arg.value)], 3)
    IN  IF primary.type \in {"reg", "ind"}
        THEN OpAddByte(low,
                 convert_to_bits(RegOpAdd[register_pointers(primary.value)], 3),
                 IF primary.type = "ind" THEN 1 ELSE 0,
                 IF secondary.kind = "arg" /\ secondary.arg.type = "ind" THEN 1 ELSE 0)
        ELSE OpAddByte(low,
                 IF primary.type = "lit" THEN <<1, 0, 0>>
                 ELSE IF primary.type = "mem" THEN <<0, 0, 1>>
                 ELSE <<0, 0, 0>>,
                 1, 1)

\* Assembler.assemble_op_add(primary, secondary): the op-add byte
assemble_op_add(primary, secondary) ==
    LET low == IF secondary.kind = "int" THEN convert_to_bits(secondary.n, 3)
               ELSE convert_to_bits(RegOpAdd[register_pointers(secondary.arg.value)], 3)
    IN  IF primary.type \in {"reg", "ind"}
        THEN OpAddByte(low,
                 convert_to_bits(RegOpAdd[register_pointers(primary.value)], 3),
                 IF primary.type = "ind" THEN 1 ELSE 0,
                 IF secondary.kind = "arg" /\ secondary.arg.type = "ind" THEN 1 ELSE 0)
        ELSE OpAddByte(low,
                 IF primary.type = "lit"
                 THEN <<IF primary.value = 0 THEN 0 ELSE 1, 0, 0>>
                 ELSE IF primary.type = "mem" THEN <<0, 0, 1>>
                 ELSE <<0, 0, 0>>,
                 1, 1)

\* Assembler.intuitive_operand_size(*args)
intuitive_operand_size(args) ==
    IF \E i \in 1..Len(args) : args[i].type = "reg"
    THEN Argument_size(args[CHOOSE i \in 1..Len(args) :
             /\ args[i].type = "reg"
             /\ \A j \in 1..(i - 1) : args[j].type # "reg"])
    ELSE IF \E i \in 1..Len(args) : args[i].type = "lit"
    THEN Argument_size(args[CHOOSE i \in 1..Len(args) :
             /\ args[i].type = "lit"
             /\ \A j \in 1..(i - 1) : args[j].type # "lit"])
    ELSE 1

\* valid_pairings of common_two_arg_suffix
valid_pairings(type) ==
    CASE type = "reg" -> {"reg", "ind", "mem"}
      [] type = "ind" -> {"reg"}
      [] type = "lit" -> {"reg", "ind", "mem"}
      [] type = "mem" -> {"reg"}
      [] OTHER -> {}

\* Assembler.common_two_arg_suffix(arg1, arg2, force_operand_size); "" when
\* the pairing is rejected (CherrySyntaxError)
common_two_arg_suffix(arg1, arg2, force_operand_size) ==
    IF arg2.type \notin valid_pairings(arg1.type) THEN ""
    ELSE IF arg1.type = "lit" /\ arg2.type # "reg"
    THEN IF arg2.type = "ind"
         THEN (IF Argument_size(arg1) = 4 THEN "LITINDW" ELSE "LITINDB")
         ELSE (IF Argument_size(arg1) = 4 THEN "LITMEMW" ELSE "LITMEMB")
    ELSE LET operand_size == IF force_operand_size # 0 THEN force_operand_size
                             ELSE intuitive_operand_size(<<arg1, arg2>>)
         IN  IF operand_size = 4 THEN "W" ELSE "B"

\* Assembler.check_arg_type(mnemonic, arg, pos)
check_arg_type(core, arg, pos) == arg.type \in AsmArgs(core)[pos]

\* Assembler.arg_count(mnemonic)
arg_count(core) == Len(AsmArgs(core))

\* What encoding one line yields: the status ("ok", or the exception raised),
\* the bytes after the prefix (opcode, op-add, givens) and the patch sites
\* recorded
Enc(status, opcode, op_add, givens, sources) ==
    [status |-> status, opcode |-> opcode, op_add |-> op_add,
     givens |-> givens, sources |-> sources]
EncFail(status) == Enc(status, 0, <<>>, <<>>, <<>>)
EncOk(opcode, op_add, givens) == Enc("ok", opcode, op_add, givens, <<>>)

\* elif mnemonic in ("MOV", "ADD", "SUB", "CMP", "AND", "OR", "XOR")
EncodeTwoArg(core, args, force_size) ==
    LET suffix == common_two_arg_suffix(args[1], args[2], force_size)
    IN  IF suffix = "" THEN EncFail("CherrySyntaxError")
        ELSE IF ~IsMnemonic(core, suffix) THEN EncFail("KeyError")
        ELSE IF suffix \in {"B", "W"}
        THEN IF ~op_add_secondary_known(SecArg(args[2])) THEN EncFail("KeyError")
             ELSE EncOk(mnemonics(core, suffix),
                      <<assemble_op_add(args[1], SecArg(args[2]))>>,
                      IF args[1].type = "mem"
                         \/ (args[1].type = "lit" /\ args[1].value # 0)
                      THEN Argument_bytes([args[1] EXCEPT
                               !.lit_size = IF suffix = "W" THEN 4 ELSE 1])
                      ELSE <<>>)
        ELSE IF suffix \in {"LITINDB", "LITINDW"}
        THEN IF args[2].value + 184 > 255 THEN EncFail("ValueError")
             ELSE EncOk(mnemonics(core, suffix), <<args[2].value + 184>>,
                        Argument_bytes(args[1]))
        ELSE EncOk(mnemonics(core, suffix), <<>>,
                   Argument_bytes(args[2]) \o Argument_bytes(args[1]))

\* if mnemonic == "PUSH" / elif mnemonic == "POP"
EncodePushPop(core, args, force_size) ==
    LET size == IF force_size # 0 THEN force_size ELSE Argument_size(args[1])
        wb == IF size = 4 THEN "W" ELSE "B"
        suffix == IF core = "POP" THEN wb
                  ELSE IF args[1].type = "reg"
                  THEN (IF size = 4 THEN "RW" ELSE "RB")
                  ELSE (IF size = 4 THEN "LW" ELSE "LB")
    IN  IF ~IsMnemonic(core, suffix) THEN EncFail("KeyError")
        ELSE EncOk(mnemonics(core, suffix),
                 <<assemble_op_add(args[1], SecArg(Argument_null))>>,
                 IF core = "PUSH" /\ args[1].type = "lit" /\ args[1].value # 0
                 THEN Argument_bytes(args[1]) ELSE <<>>)

\* elif mnemonic == "JMP" / "JREL" / in ("CALL", "LOCAL")
EncodeJump(core, args, current_bytecode_length) ==
    LET site == IF args[1].type = "reference"
                THEN <<<<args[1].value, current_bytecode_length + 1>>>>
                ELSE <<>>
    IN  CASE core = "JMP" ->
                 Enc("ok", mnemonics("JMP", ""), <<>>, Argument_bytes(args[1]), site)
          [] core = "JREL" ->
                 IF Argument_size(args[1]) # 1 THEN EncFail("CherrySyntaxError")
                 ELSE EncOk(mnemonics("JREL", ""), <<>>, Argument_bytes(args[1]))
          [] core = "CALL" ->
                 IF args[1].type \in {"mem", "reference"}
                 THEN Enc("ok", mnemonics("CALL", "MEM"), <<>>,
                          Argument_bytes(args[1]), site)
                 ELSE EncOk(mnemonics("CALL", "REG"), <<>>,
                          <<assemble_op_add(args[1], SecArg(Argument_null))>>)

\* raw_mnemonic[1:]
MnemonicTail(raw_mnemonic) == IF raw_mnemonic = "ROT" THEN "OT" ELSE "SH"

\* elif mnemonic in ("LSH", "RSH")
EncodeShift(raw_mnemonic, core, args, force_size) ==
    LET operand_size == IF force_size # 0 THEN force_size ELSE Argument_size(args[1])
        operation == MnemonicTail(raw_mnemonic)
        offset == IF operation = "ROT" THEN 128
                  ELSE IF operation = "ASH" THEN 64 ELSE 0
    IN  IF ~(0 <= args[2].value /\ args[2].value <= 31)
        THEN EncFail("CherrySyntaxError")
        ELSE IF args[1].type = "mem"
        THEN EncOk(mnemonics(core, IF operand_size = 4 THEN "MEMW" ELSE "MEMB"),
                 <<>>, Argument_bytes(args[1]) \o <<args[2].value + offset>>)
        ELSE EncOk(mnemonics(core, IF operand_size = 4 THEN "W" ELSE "B"),
                 <<assemble_op_add(args[1], SecArg(Argument_null))>>,
                 <<args[2].value + offset>>)

\* elif mnemonic == "BBIT"
EncodeBbit(args) ==
    IF ~(0 <= args[2].value /\ args[2].value <= 3) THEN EncFail("CherrySyntaxError")
    ELSE IF ~(0 <= args[3].value /\ args[3].value <= 7) THEN EncFail("CherrySyntaxError")
    ELSE EncOk(mnemonics("BBIT", ByteIndexSuffix[args[2].value]),
               <<assemble_op_add(args[1], SecInt(args[2].value))>>, <<>>)

\* The per-mnemonic branches of assemble_instruction
EncodeFamily(raw_mnemonic, core, args, force_size, current_bytecode_length) ==
    CASE core \in {"PUSH", "POP"} -> EncodePushPop(core, args, force_size)
      [] core \in ShiftCores -> EncodeShift(raw_mnemonic, core, args, force_size)
      [] core = "BBIT" -> EncodeBbit(args)
      [] core \in TwoArgCores -> EncodeTwoArg(core, args, force_size)
      [] core \in {"JMP", "JREL", "CALL"} ->
             EncodeJump(core, args, current_bytecode_length)
      [] OTHER -> IF IsMnemonic(core, "")
                  THEN EncOk(mnemonics(core, ""), <<>>, <<>>)
                  ELSE EncFail("KeyError")

\* The arguments of a line, interpreted in order
InterpretAll(raws, force_size, named_references) ==
    [i \in 1..Len(raws) |->
        interpret_argument(raws[i], force_size, named_references)]

\* A dict as a set of <<key, value>> pairs
DictHas(d, k) == \E p \in d : p[1] = k
DictGet(d, k) == (CHOOSE p \in d : p[1] = k)[2]
DictSet(d, k, v) == {p \in d : p[1] # k} \cup {<<k, v>>}

\* What assemble_instruction returns or raises, with the assembler's
\* tables as it leaves them
AsmResult(status, bytes, ref_sources, ref_destinations) ==
    [status |-> status, bytes |-> bytes, ref_sources |-> ref_sources,
     ref_destinations |-> ref_destinations]

\* Assembler.assemble_instruction(raw_instruction)
assemble_instruction(raw_instruction, self) ==
    LET dests == IF raw_instruction.label # ""
                 THEN DictSet(self.ref_destinations, Fold(raw_instruction.label),
                              self.current_bytecode_length)
                 ELSE self.ref_destinations
        fail(status) == AsmResult(status, <<>>, self.ref_sources, dests)
        prefix == IF raw_instruction.cond # "" THEN <<mnemonics(raw_instruction.cond, "")>> ELSE <<>>
        force_size == IF raw_instruction.suffix = "B" THEN 1
                      ELSE IF raw_instruction.suffix = "W" THEN 4 ELSE 0
        interp == InterpretAll(raw_instruction.args, force_size, self.named_references)
        args == [i \in 1..Len(raw_instruction.args) |-> interp[i].arg]
        mnemonic == check_for_alias(raw_instruction.core)
        enc == EncodeFamily(raw_instruction.core, mnemonic, args, force_size,
                            self.current_bytecode_length)
    IN  IF raw_instruction.core = "" /\ raw_instruction.cond = ""
        THEN AsmResult("ok", <<>>, self.ref_sources, dests)
        ELSE IF \E i \in 1..Len(raw_instruction.args) : raw_instruction.args[i].kind = "unclosed"
        THEN fail("CherrySyntaxError")
        ELSE IF raw_instruction.core = "" THEN fail("CherrySyntaxError")
        ELSE IF ~valid_mnemonic(raw_instruction.core, raw_instruction.suffix) THEN fail("CherrySyntaxError")
        ELSE IF raw_instruction.suffix \notin {"", "B", "W"} THEN fail("CherrySyntaxError")
        ELSE IF Len(raw_instruction.args) # arg_count(mnemonic) THEN fail("CherrySyntaxError")
        ELSE IF \E i \in 1..Len(raw_instruction.args) : ~interp[i].ok
        THEN fail("CherrySyntaxError")
        ELSE IF \E i \in 1..Len(args) : ~check_arg_type(mnemonic, args[i], i)
        THEN fail("CherrySyntaxError")
        ELSE IF enc.status # "ok" THEN fail(enc.status)
        ELSE AsmResult("ok",
                 prefix \o <<enc.opcode>> \o enc.op_add \o enc.givens,
                 self.ref_sources \o enc.sources, dests)

(***************************************************************************)
(* machine.py: decoding.  An instruction is the sequence of byte values    *)
(* that memory.read returned; a Byte compared with, or converted to, an    *)
(* integer stands for the value of its bits (bit 0 the least significant). *)
(***************************************************************************)
\* byte[lo:hi] as an integer
BitField(byte, lo, hi) == (byte \div Pow2(lo)) % Pow2(hi - lo)

\* instruction[i], 0-based
ByteAt(instruction, i) == instruction[i + 1]

\* Machine.__init__: op_add_registers[op_add][size]
HasOpAddRegister(op_add_code, operand_size) ==
    \E n \in RegNames : RegOpAdd[n] = op_add_code /\ RegSize[n] = operand_size

\* Machine.sized_op_add_register(op_add_code, operand_size)
sized_op_add_register(op_add_code, operand_size) ==
    CHOOSE n \in RegNames : RegOpAdd[n] = op_add_code /\ RegSize[n] = operand_size

\* The special sources of op_add_primary, by the value of bits 3..5
SpecialSource(sel) ==
    CASE sel = 0 -> "null" [] sel = 1 -> "given_literal"
      [] sel = 4 -> "given_address" [] OTHER -> "None"

\* A decoded operand: its kind, the register or special source it names, the
\* address it holds, and the exception its decoding raised ("" if none)
Operand(type, name, address, err) ==
    [type |-> type, name |-> name, address |-> address, err |-> err]

\* Register.value of a register of the file rs
Register_value(rs, name) == Byte_value(BitsOfBytes(rs[name]))

\* Machine.op_add_primary(op_add, operand_size)
op_add_primary(rs, op_add, operand_size) ==
    IF BitField(op_add, 6, 8) = 3
    THEN Operand("special", SpecialSource(BitField(op_add, 3, 6)), 0, "")
    ELSE IF BitField(op_add, 6, 8) = 1
    THEN IF HasOpAddRegister(BitField(op_add, 3, 6), 4)
         THEN Operand("memory", "",
                  Register_value(rs, sized_op_add_register(BitField(op_add, 3, 6), 4)), "")
         ELSE Operand("memory", "", 0, "KeyError")
    ELSE IF HasOpAddRegister(BitField(op_add, 3, 6), operand_size)
         THEN Operand("register",
                  sized_op_add_register(BitField(op_add, 3, 6), operand_size), 0, "")
         ELSE Operand("register", "", 0, "KeyError")

\* Machine.op_add_secondary(op_add, operand_size)
op_add_secondary(rs, op_add, operand_size) ==
    IF BitField(op_add, 6, 8) = 2
    THEN IF HasOpAddRegister(BitField(op_add, 0, 3), 4)
         THEN Operand("memory", "",
                  Register_value(rs, sized_op_add_register(BitField(op_add, 0, 3), 4)), "")
         ELSE Operand("memory", "", 0, "KeyError")
    ELSE IF HasOpAddRegister(BitField(op_add, 0, 3), operand_size)
         THEN Operand("register",
                  sized_op_add_register(BitField(op_add, 0, 3), operand_size), 0, "")
         ELSE Operand("register", "", 0, "KeyError")

\* An integer result, or the exception raised instead
IntResult(n, err) == [n |-> n, err |-> err]

\* The givens of a decoded primary operand p
GivensOf(p, operand_size) ==
    IF p.err # "" THEN IntResult(0, p.err)
    ELSE IF p.type = "special" /\ p.name = "given_literal"
    THEN IntResult(operand_size, "")
    ELSE IF p.type = "special" /\ p.name = "given_address" THEN IntResult(2, "")
    ELSE IntResult(0, "")

\* Machine.op_add_givens_length(op_add, operand_size)
op_add_givens_length(rs, op_add, operand_size) ==
    GivensOf(op_add_primary(rs, op_add, operand_size), operand_size)

\* Machine.uses_full_op_add(opcode)
uses_full_op_add(opcode) ==
    \/ BitField(opcode, 1, 3) = 0 /\ BitField(opcode, 4, 8) \in {3, 4, 6, 7, 10}
    \/ BitField(opcode, 4, 8) = 11

\* instruction[0][5:] == 6
IsConditional(instruction) == BitField(ByteAt(instruction, 0), 5, 8) = 6

\* ret + givens + opcodes[opcode].base_length
LengthOf(ret, opc, givens) ==
    IF givens.err # "" THEN givens
    ELSE IF ~InOpcodes(opc) THEN IntResult(0, "KeyError")
    ELSE IntResult(ret + givens.n + base_length(opc), "")

\* A plausible slip: the prefix byte is not counted.
LengthAfterPrefix_uncounted(rs, ins, ret) ==
    LengthOf(0, ByteAt(ins, 0),
        IF uses_full_op_add(ByteAt(ins, 0))
        THEN op_add_givens_length(rs, ByteAt(ins, 1),
                 IF BitField(ByteAt(ins, 0), 0, 1) = 1 THEN 4 ELSE 1)
        ELSE IntResult(0, ""))

\* The length of ins, the instruction after its ret bytes of prefix
LengthAfterPrefix(rs, ins, ret) ==
    LengthOf(ret, ByteAt(ins, 0),
        IF uses_full_op_add(ByteAt(ins, 0))
        THEN op_add_givens_length(rs, ByteAt(ins, 1),
                 IF BitField(ByteAt(ins, 0), 0, 1) = 1 THEN 4 ELSE 1)
        ELSE IntResult(0, ""))

\* Machine.instruction_length(instruction)
instruction_length(rs, instruction) ==
    LengthAfterPrefix(rs,
        IF IsConditional(instruction) THEN Tail(instruction) ELSE instruction,
        IF IsConditional(instruction) THEN 1 ELSE 0)

(***************************************************************************)
(* machine.py: Drive.  The memory is a list of bytes; it is kept here as   *)
(* its length and the set of <<address, value>> pairs of its non-zero      *)
(* bytes.                                                                  *)
(***************************************************************************)
\* self.memory = Drive(65536)
MemorySize == 65536
NewMemory == [len |-> MemorySize, cells |-> {}]

MemCell(mem, a) ==
    IF \E p \in mem.cells : p[1] = a
    THEN (CHOOSE p \in mem.cells : p[1] = a)[2]
    ELSE 0

RECURSIVE MemBytes(_, _, _)
MemBytes(mem, a, b) ==
    IF a >= b THEN <<>> ELSE <<MemCell(mem, a)>> \o MemBytes(mem, a + 1, b)

\* Drive.read(address, no_bytes): the bytes of bits[address*8:(address+no_bytes)*8]
Drive_read(mem, address, no_bytes) ==
    MemBytes(mem, Min(address, mem.len), Min(address + no_bytes, mem.len))

\* The non-zero bytes of data, placed from address base on
DataCells(data, base) ==
    {<<base + i - 1, data[i]>> : i \in {j \in 1..Len(data) : data[j] # 0}}

\* self.bits[a*8:b*8] = the bits of data followed by zeros, n bytes in all:
\* a Python slice assignment, which moves what follows when n # b - a
MemAssign(mem, a, b, data, n) ==
    LET lo == Min(a, mem.len)
        hi == Min(Max(a, b), mem.len)
    IN  [len |-> lo + n + (mem.len - hi),
         cells |-> {p \in mem.cells : p[1] < lo}
                   \cup DataCells(data, lo)
                   \cup {<<p[1] - hi + lo + n, p[2]>> :
                            p \in {q \in mem.cells : q[1] >= hi}}]

\* del self.bits[self.size*8:]
Truncate(mem, size) ==
    [len |-> Min(mem.len, size), cells |-> {p \in mem.cells : p[1] < size}]

\* Register.write_at(address, data) on the Drive, data a ByteArray
\* (no_bytes = len(data))
Drive_write_at(mem, address, data) ==
    LET put == MemAssign(mem, address, address + Len(data), data, Len(data))
    IN  IF address + Len(data) > MemorySize THEN Truncate(put, MemorySize) ELSE put

(***************************************************************************)
(* machine.py: Machine.  A machine is its registers, its memory, the       *)
(* halted flag and the exception that stopped it ("" while none has).      *)
(***************************************************************************)
MachineOf(rs, mem) == [regs |-> rs, memory |-> mem, halted |-> FALSE, err |-> ""]

Raise(m, e) == IF m.err = "" THEN [m EXCEPT !.err = e] ELSE m

\* self.write_to_register(pointer, data)
WriteReg(m, name, data) ==
    IF m.err # "" THEN m
    ELSE [m EXCEPT !.regs = write_to_register(@, name, data)]

\* self.memory.write_at(address, data)
MemWrite(m, address, data) ==
    IF m.err # "" THEN m
    ELSE [m EXCEPT !.memory = Drive_write_at(@, address, data)]

\* A plausible slip: the register is left as it is.
increment_reg_not_written(m, name, n) == m

\* Machine.increment_reg(pointer, n)
increment_reg(m, name, n) ==
    WriteReg(m, name, IntData(Register_value(m.regs, name) + n))

\* Machine.move_register(source, destination)
move_register(m, from, to) ==
    WriteReg(m, to, BytesData(m.regs[from]))

\* self.memory.write_at(self.stack_pointer, data), SP already lowered
PushAt(m1, data) == MemWrite(m1, Register_value(m1.regs, "SP"), data)

\* Machine.push(data)
push(m, data) == PushAt(increment_reg(m, "SP", 0 - Len(data)), data)

save_on_call == <<"GA", "GB", "GC", "GD", "FL", "RI", "RS">>

RECURSIVE PushRegisters(_, _)
PushRegisters(m, names) ==
    IF names = <<>> THEN m
    ELSE PushRegisters(push(m, m.regs[names[1]]), Tail(names))

\* Machine.push_all_registers()
push_all_registers(m) == PushRegisters(m, save_on_call)

\* Machine.read_stack(no_bytes)
read_stack(m, no_bytes) ==
    Drive_read(m.memory, Register_value(m.regs, "SP"), no_bytes)

\* for reg_name in reversed(save_on_call): reg.write(self.pop(reg.size))
RECURSIVE PopRegisters(_, _)
PopRegisters(m, names) ==
    IF names = <<>> THEN m
    ELSE LET name == names[Len(names)]
             ret == read_stack(m, RegSize[name])
             m1 == increment_reg(m, "SP", RegSize[name])
         IN  PopRegisters(
                 [m1 EXCEPT !.regs[name] =
                     Register_write(RegSize[name], BytesData(ret))],
                 SubSeq(names, 1, Len(names) - 1))

\* Machine.pop_all_registers()
pop_all_registers(m) == PopRegisters(m, save_on_call)

\* Machine.flag_names
flag_names(flag) ==
    CASE flag = "Z" -> 0 [] flag = "C" -> 1 [] flag = "N" -> 2 [] flag = "H" -> 7

\* Machine.get_flag(flag)
get_flag(rs, flag) ==
    BitField(rs["FL"][1], flag_names(flag), flag_names(flag) + 1) = 1

\* byte with bit k set to b
SetBit(byte, k, b) == byte + (b - BitField(byte, k, k + 1)) * Pow2(k)

\* Machine.flag_condition(flag, condition)
flag_condition(m, flag, condition) ==
    IF m.err # "" THEN m
    ELSE [m EXCEPT !.regs["FL"] =
              <<SetBit(@[1], flag_names(flag), IF condition THEN 1 ELSE 0)>>]

\* What an operand read returns: bytes (kind "bytes") or the integer 0
\* (kind "int"), or the exception raised
Read(kind, v, err) == [kind |-> kind, v |-> v, err |-> err]
ReadBytes(bts) == Read("bytes", bts, "")
ReadError(err) == Read("bytes", <<>>, err)

\* The value read from the decoded operand o
ReadOperand(m, o, operand_size) ==
    IF o.err # "" THEN ReadError(o.err)
    ELSE IF o.type = "special"
    THEN (IF o.name = "null" THEN Read("int", 0, "") ELSE ReadError("ValueError"))
    ELSE IF o.type = "register"
    THEN ReadBytes(PySlice(m.regs[o.name], 0, operand_size))
    ELSE ReadBytes(Drive_read(m.memory, o.address, operand_size))

\* The operand op_add names: op_add_secondary for "s", op_add_primary for "p"
Decode(rs, op_add, which, operand_size) ==
    IF which = "s" THEN op_add_secondary(rs, op_add, operand_size)
    ELSE op_add_primary(rs, op_add, operand_size)

\* Machine.read_op_add(op_add, which, operand_size)
read_op_add(m, op_add, which, operand_size) ==
    ReadOperand(m, Decode(m.regs, op_add, which, operand_size), operand_size)

\* data written to the decoded operand o
WriteOperand(m, o, data) ==
    IF m.err # "" THEN m
    ELSE IF o.err # "" THEN Raise(m, o.err)
    ELSE IF o.type = "special" THEN Raise(m, "ValueError")
    ELSE IF o.type = "register" THEN WriteReg(m, o.name, BytesData(data))
    ELSE MemWrite(m, o.address, data)

\* Machine.write_op_add(op_add, which, data)
write_op_add(m, op_add, which, data) ==
    WriteOperand(m, Decode(m.regs, op_add, which, Len(data)), data)

\* ByteArray.value of a list of bytes
BytesValue(bts) == Byte_value(BitsOfBytes(bts))

\* The primary operand's value, o being the decoded primary operand
PrimaryOf(m, instruction, operand_size, o) ==
    IF o.err # "" THEN ReadError(o.err)
    ELSE IF o.type = "special"
    THEN CASE o.name = "given_literal" ->
                  ReadBytes(PySlice(instruction, 2, 2 + operand_size))
           [] o.name = "given_address" ->
                  ReadBytes(Drive_read(m.memory,
                                BytesValue(PySlice(instruction, 2, 4)), operand_size))
           [] o.name = "null" -> ReadBytes(Zeros(operand_size))
           [] OTHER -> ReadError("OpcodeError")
    ELSE ReadOperand(m, o, operand_size)

\* Machine.get_op_add_primary(instruction, operand_size)
get_op_add_primary(m, instruction, operand_size) ==
    PrimaryOf(m, instruction, operand_size,
        op_add_primary(m.regs, ByteAt(instruction, 1), operand_size))

\* ByteArray.signed_int() of a list of bytes (bits[-1] of an empty list
\* raises IndexError)
signed_int(bts) == ByteArray_signed_int(BitsOfBytes(bts))

\* ByteArray(size=operand_size, data=n) as a list of bytes
ByteArrayOf(operand_size, n) ==
    ByteArray_bytes(convert_to_bits(n, operand_size * 8))

\* Machine.check_condition(mnemonic)
\* A plausible slip: IFGT looks at N alone.
check_condition_gt_sign_only(rs, mnemonic) ==
    CASE mnemonic \in {"IFZ", "IFNZ"} -> get_flag(rs, "Z") = (mnemonic = "IFZ")
      [] mnemonic \in {"IFN", "IFNN"} -> get_flag(rs, "N") = (mnemonic = "IFN")
      [] mnemonic = "IFGT" -> ~get_flag(rs, "N")
      [] mnemonic = "IFLT" -> get_flag(rs, "N") /\ ~get_flag(rs, "Z")
      [] mnemonic = "IFGTE" -> ~get_flag(rs, "N") \/ get_flag(rs, "Z")
      [] mnemonic = "IFLTE" -> get_flag(rs, "N") \/ get_flag(rs, "Z")
      [] OTHER -> FALSE

check_condition(rs, mnemonic) ==
    CASE mnemonic \in {"IFZ", "IFNZ"} -> get_flag(rs, "Z") = (mnemonic = "IFZ")
      [] mnemonic \in {"IFN", "IFNN"} -> get_flag(rs, "N") = (mnemonic = "IFN")
      [] mnemonic = "IFGT" -> ~get_flag(rs, "N") /\ ~get_flag(rs, "Z")
      [] mnemonic = "IFLT" -> get_flag(rs, "N") /\ ~get_flag(rs, "Z")
      [] mnemonic = "IFGTE" -> ~get_flag(rs, "N") \/ get_flag(rs, "Z")
      [] mnemonic = "IFLTE" -> get_flag(rs, "N") \/ get_flag(rs, "Z")
      [] OTHER -> FALSE

\* A plausible slip: the width is read from the other end of the opcode.
OperandSize_top_bit(operation) == IF BitField(operation, 7, 8) = 1 THEN 4 ELSE 1

\* operand_size = 4 if operation[0] else 1, and operation[1:3]
OperandSize(operation) == IF BitField(operation, 0, 1) = 1 THEN 4 ELSE 1
Form(operation) == BitField(operation, 1, 3)

\* self.memory.write_at(self.stack_pointer, content), then SP -= operand_size
PushContent(m, content, operand_size) ==
    IF content.err # "" THEN Raise(m, content.err)
    ELSE increment_reg(
             MemWrite(m, Register_value(m.regs, "SP"), content.v),
             "SP", 0 - operand_size)

\* core == "PUSH"
Exec_PUSH(m, instruction, suffix) ==
    PushContent(m,
        get_op_add_primary(m, instruction, IF suffix \in {"RW", "LW"} THEN 4 ELSE 1),
        IF suffix \in {"RW", "LW"} THEN 4 ELSE 1)

\* core == "POP"
Exec_POP(m, instruction, suffix) ==
    LET operand_size == IF suffix = "W" THEN 4 ELSE 1
        pointer == ByteAt(instruction, 1)
    IN  IF ~HasPointer(pointer) THEN Raise(m, "KeyError")
        ELSE increment_reg(
                 WriteReg(m, register_pointers(pointer),
                          BytesData(read_stack(m, operand_size))),
                 "SP", operand_size)

\* The three forms of MOV, content being the primary operand of form 0
MovContent(m, instruction, operand_size, form, content) ==
    CASE form = 0 ->
             IF content.err # "" THEN Raise(m, content.err)
             ELSE write_op_add(m, ByteAt(instruction, 1), "s", content.v)
      [] form = 1 ->
             write_op_add(m, ByteAt(instruction, 1), "s",
                          PySlice(instruction, 2, 2 + operand_size))
      [] form = 2 ->
             MemWrite(m, BytesValue(PySlice(instruction, 1, 3)),
                      PySlice(instruction, 3, 3 + operand_size))
      [] OTHER -> m

\* core == "MOV"
Exec_MOV(m, instruction) ==
    MovContent(m, instruction, OperandSize(ByteAt(instruction, 0)),
        Form(ByteAt(instruction, 0)),
        get_op_add_primary(m, instruction, OperandSize(ByteAt(instruction, 0))))

\* The operands a and b that ADD, SUB and CMP read, by form
ArithA(m, instruction) ==
    LET operation == ByteAt(instruction, 0)
        operand_size == OperandSize(operation)
    IN  CASE Form(operation) = 0 -> get_op_add_primary(m, instruction, operand_size)
          [] Form(operation) = 1 ->
                 read_op_add(m, ByteAt(instruction, 1), "s", operand_size)
          [] OTHER ->
                 ReadBytes(Drive_read(m.memory,
                               BytesValue(PySlice(instruction, 1, 3)), operand_size))

ArithB(m, instruction) ==
    LET operation == ByteAt(instruction, 0)
        operand_size == OperandSize(operation)
    IN  CASE Form(operation) = 0 ->
                 read_op_add(m, ByteAt(instruction, 1), "s", operand_size)
          [] Form(operation) = 1 ->
                 ReadBytes(PySlice(instruction, 2, 2 + operand_size))
          [] OTHER -> ReadBytes(PySlice(instruction, 3, 3 + operand_size))

\* The exception reading a and b as signed integers raises ("" if none)
ArithError(a, b) ==
    IF a.err # "" THEN a.err
    ELSE IF Len(a.v) = 0 THEN "IndexError"
    ELSE IF b.err # "" THEN b.err
    ELSE IF Len(b.v) = 0 THEN "IndexError"
    ELSE ""

\* a + b > 2 ** (operand_size * 8), for the integers of the model
ExceedsPow2(n, bits) == bits < 31 /\ n > Pow2(bits)

\* The flags ADD and SUB set once the result is stored
AddSubFlags(stored, core, result, operand_size) ==
    IF core = "ADD"
    THEN flag_condition(flag_condition(stored, "Z", result = 0),
                        "C", ExceedsPow2(result, operand_size * 8))
    ELSE flag_condition(flag_condition(stored, "Z", result = 0), "N", result < 0)

\* The result of a + b written to the destination of the form
AddSubStore(m, instruction, operand_size, result) ==
    IF Form(ByteAt(instruction, 0)) = 2
    THEN MemWrite(m, BytesValue(PySlice(instruction, 1, 3)),
                  ByteArrayOf(operand_size, result))
    ELSE write_op_add(m, ByteAt(instruction, 1), "s",
                      ByteArrayOf(operand_size, result))

\* a = ra.signed_int() (negated by SUB), b = rb.signed_int()
AddSubOf(m, instruction, core, operand_size, ra, rb) ==
    IF Form(ByteAt(instruction, 0)) = 3 THEN m
    ELSE IF ArithError(ra, rb) # "" THEN Raise(m, ArithError(ra, rb))
    ELSE AddSubFlags(
             AddSubStore(m, instruction, operand_size,
                 signed_int(ra.v) * (IF core = "SUB" THEN 0 - 1 ELSE 1)
                     + signed_int(rb.v)),
             core,
             signed_int(ra.v) * (IF core = "SUB" THEN 0 - 1 ELSE 1) + signed_int(rb.v),
             operand_size)

\* core in ("ADD", "SUB")
Exec_ADDSUB(m, instruction, core) ==
    AddSubOf(m, instruction, core, OperandSize(ByteAt(instruction, 0)),
        ArithA(m, instruction), ArithB(m, instruction))

\* Z = (a == b) and N = (a < b), a and b read as ra and rb
CmpOf(m, instruction, ra, rb) ==
    IF Form(ByteAt(instruction, 0)) = 3 THEN m
    ELSE IF ArithError(ra, rb) # "" THEN Raise(m, ArithError(ra, rb))
    ELSE flag_condition(
             flag_condition(m, "Z", signed_int(ra.v) = signed_int(rb.v)),
             "N", signed_int(ra.v) < signed_int(rb.v))

\* core == "CMP"
Exec_CMP(m, instruction) ==
    CmpOf(m, instruction, ArithA(m, instruction), ArithB(m, instruction))

\* core == "JMP" and core == "JREL"
Exec_JMP(m, instruction, core) ==
    IF core = "JMP"
    THEN flag_condition(
             WriteReg(m, "IP", BytesData(PySlice(instruction, 1, 3))), "H", TRUE)
    ELSE flag_condition(
             increment_reg(m, "IP",
                 ByteArray_signed_int(convert_to_bits(ByteAt(instruction, 1), 8))),
             "H", TRUE)

\* IP past the call, RI and RS set, IP = dest, with the registers pushed (m1)
CallFrom(m1, dest, length) ==
    IF length.err # "" THEN Raise(m1, length.err)
    ELSE flag_condition(
             WriteReg(
                 move_register(
                     move_register(increment_reg(m1, "IP", length.n), "IP", "RI"),
                     "SP", "RS"),
                 "IP",
                 IF dest.kind = "int" THEN IntData(dest.v) ELSE BytesData(dest.v)),
             "H", TRUE)

\* dest is read, then the registers are pushed (m1)
CallTo(m, dest, m1, raw_instruction) ==
    IF dest.err # "" THEN Raise(m, dest.err)
    ELSE CallFrom(m1, dest, instruction_length(m1.regs, raw_instruction))

\* core == "CALL"
Exec_CALL(m, instruction, raw_instruction, suffix) ==
    CallTo(m,
        IF suffix = "MEM" THEN ReadBytes(PySlice(instruction, 1, 3))
        ELSE read_op_add(m, ByteAt(instruction, 1), "p", 2),
        push_all_registers(m), raw_instruction)

\* core == "RET"
Exec_RET(m) ==
    flag_condition(
        pop_all_registers(move_register(move_register(m, "RS", "SP"), "RI", "IP")),
        "H", TRUE)

\* The mnemonic branches of execute_instruction
\* The bit of the byte content[byte_index]; a content of fewer bytes raises
\* IndexError
BbitOf(m, content, byte_index, bit) ==
    IF content.err # "" THEN Raise(m, content.err)
    ELSE IF byte_index >= Len(content.v) THEN Raise(m, "IndexError")
    ELSE flag_condition(m, "Z",
             BitField(content.v[byte_index + 1], bit, bit + 1) = 1)

\* core == "BBIT"
Exec_BBIT(m, instruction) ==
    BbitOf(m, get_op_add_primary(m, instruction, 4),
           BitField(ByteAt(instruction, 0), 0, 2),
           BitField(ByteAt(instruction, 1), 0, 3))

ExecCore(m, instruction, raw_instruction, core, suffix) ==
    CASE core = "PUSH" -> Exec_PUSH(m, instruction, suffix)
      [] core = "POP" -> Exec_POP(m, instruction, suffix)
      [] core = "MOV" -> Exec_MOV(m, instruction)
      [] core \in {"ADD", "SUB"} -> Exec_ADDSUB(m, instruction, core)
      [] core = "CMP" -> Exec_CMP(m, instruction)
      [] core \in {"JMP", "JREL"} -> Exec_JMP(m, instruction, core)
      [] core = "CALL" -> Exec_CALL(m, instruction, raw_instruction, suffix)
      [] core = "RET" -> Exec_RET(m)
      [] core = "BBIT" -> Exec_BBIT(m, instruction)
      [] core = "HLT" -> [m EXCEPT !.halted = TRUE]
      [] OTHER -> m

\* core, *suffix = instruction.mnemonic.split("-")
Exec(m, instruction, raw_instruction) ==
    ExecCore(m, instruction, raw_instruction,
        mnemonic_core(ByteAt(instruction, 0)), mnemonic_suffix(ByteAt(instruction, 0)))

\* The conditional prefix of raw_instruction holds, or there is none
ConditionHolds(rs, raw_instruction) ==
    IsConditional(raw_instruction) =>
        check_condition(rs, mnemonic_core(ByteAt(raw_instruction, 0)))

\* The instruction after the conditional prefix, if there is one
Effective(raw_instruction) ==
    IF IsConditional(raw_instruction) THEN Tail(raw_instruction) ELSE raw_instruction

\* Machine.execute_instruction(raw_instruction)
execute_instruction(m, raw_instruction) ==
    IF ~ConditionHolds(m.regs, raw_instruction) THEN m
    ELSE Exec(m, Effective(raw_instruction), raw_instruction)

\* self.increment_reg(IP, self.instruction_length(next_instruction))
AdvanceBy(m1, length) ==
    IF length.err # "" THEN Raise(m1, length.err)
    ELSE increment_reg(m1, "IP", length.n)

\* A plausible slip: IP is advanced whatever H says, and H is left alone.
Advance_whatever_H(m1, next_instruction) ==
    IF m1.err # "" \/ m1.halted THEN m1
    ELSE AdvanceBy(m1, instruction_length(m1.regs, next_instruction))

\* The rest of the iteration, m1 being the machine after execute_instruction
Advance(m1, next_instruction) ==
    IF m1.err # "" \/ m1.halted THEN m1
    ELSE IF ~get_flag(m1.regs, "H")
    THEN AdvanceBy(m1, instruction_length(m1.regs, next_instruction))
    ELSE flag_condition(m1, "H", FALSE)

\* One iteration of the loop of Machine.run on next_instruction
run_iteration(m, next_instruction) ==
    Advance(execute_instruction(m, next_instruction), next_instruction)

(***************************************************************************)
(* Encoding specification: one source line is assembled by a fresh         *)
(* Assembler and the bytes are measured by a fresh Machine.                *)
(***************************************************************************)
\* Assembler.__init__
NewAssembler(named_references) ==
    [current_bytecode_length |-> 0, named_references |-> named_references,
     ref_sources |-> <<>>, ref_destinations |-> {}, line_counter |-> 0]

\* The operands offered: registers of every width, indirections, memory
\* addresses (1 is also a register pointer, 5000 is not) and literals of
\* both lengths, zero and non-zero, with and without a width suffix
EncFirstArgs ==
    {RName("GA"), RName("GAX"), RName("GBL"), RAt("GB"), RMem(1), RMem(5000),
     RDec(0), RDec(5), RDec(0 - 3), RDec(300), RDecW(7, 4), RHex(171), RHexW(0, 4),
     RBin(129)}
EncSecondArgs ==
    {RName("GB"), RName("GAL"), RAt("GA"), RAt("GBL"), RMem(1), RMem(5000), RDec(5)}
EncCores == TwoArgCores
EncSuffixes == {"", "B", "W", "LITINDB"}
EncConds == {"", "IFZ", "IFLTE"}

\* The relative jumps offered: decimal distances at and around the ends of
\* the signed and of the unsigned byte
JrelEdges == {0 - 128, 0, 127, 255}
JrelDistances == {e + d : e \in JrelEdges, d \in {0 - 1, 0, 1}}
JrelLines ==
    {Line("", c, "JREL", "", <<RDec(n)>>) : c \in EncConds, n \in JrelDistances}

\* The decimal literals offered with a width suffix: values at and around
\* the ends of the signed and of the unsigned byte, going to a destination
\* that leaves the literal its own width
SuffixedEdges == {0 - 256, 0 - 128, 0, 255}
SuffixedValues ==
    {e + d : e \in SuffixedEdges, d \in {0 - 1, 0, 1}} \cup {0 - 200, 56, 70000, 0 - 70000}
SuffixedLines ==
    {Line("", "", "MOV", "", <<RDecW(n, w), b>>) :
        n \in SuffixedValues, w \in {1, 4}, b \in {RMem(5000), RAt("GB")}}

EncLines ==
    {Line("", c, m, s, <<a, b>>) :
        c \in EncConds, m \in EncCores, s \in EncSuffixes,
        a \in EncFirstArgs, b \in EncSecondArgs}
    \cup JrelLines \cup SuffixedLines

NotAssembled == AsmResult("none", <<>>, <<>>, {})

EncInit ==
    /\ line \in EncLines
    /\ emitted = NotAssembled

\* Assembler().assemble_instruction(line)
AssembleLine ==
    /\ emitted = NotAssembled
    /\ emitted' = assemble_instruction(line, NewAssembler({}))
    /\ UNCHANGED line

EncIdle ==
    /\ line = Line("", "", "", "", <<>>)
    /\ emitted = NotAssembled

\* Machine.run: next_instruction = self.memory.read(self.instruction_pointer, 16)
FetchLength == 16

\* memory.read(IP, 16) of the emitted bytes followed by zeroed memory
Fetched(bytes) == zero_pad(bytes, FetchLength)

NoFile == [exists |-> FALSE, bytes |-> <<>>]
File(bytes) == [exists |-> TRUE, bytes |-> bytes]

\* Assembler.is_reserved_name(name)
is_reserved_name(name) ==
    \/ Fold(name) \in RegNames
    \/ valid_mnemonic(Fold(name), "")
    \/ name \in HexNames /\ is_valid_hex_literal(HexNameValue[name], 0)

\* starts_with_named_ref(line) in pass 1, which matches at the first
\* character of the line as it is read: the label, "" if there is none there
NamedRefOf(raw) == IF raw.indent THEN "" ELSE raw.label

\* named_references after the lines before line n
RECURSIVE LabelsBefore(_, _)
LabelsBefore(src, n) ==
    IF n <= 1 THEN {}
    ELSE LabelsBefore(src, n - 1)
             \cup (IF NamedRefOf(src[n - 1]) # ""
                   THEN {Fold(NamedRefOf(src[n - 1]))} ELSE {})

\* Pass 1 raises on a reserved name or on a name already seen
Pass1Fails(src) ==
    \E n \in 1..Len(src) :
        /\ NamedRefOf(src[n]) # ""
        /\ \/ is_reserved_name(NamedRefOf(src[n]))
           \/ Fold(NamedRefOf(src[n])) \in LabelsBefore(src, n)

\* bytes(ByteArray(size=2, data=n))
AddressBytes(n) == ByteArray_bytes(convert_to_bits(n, 16))

\* fp.seek(location); fp.write(bts)
FileWriteAt(bytes, location, bts) ==
    PySliceAssign(zero_pad(bytes, Max(Len(bytes), location)),
                  location, location + Len(bts), bts)

\* The back-patch loop: every recorded site receives its label's address
RECURSIVE PatchAll(_, _, _)
PatchAll(bytes, sites, ref_destinations) ==
    IF sites = <<>> THEN bytes
    ELSE PatchAll(FileWriteAt(bytes, sites[1][2],
                      AddressBytes(DictGet(ref_destinations, sites[1][1]))),
                  Tail(sites), ref_destinations)

Lbl(label, raw) == [raw EXCEPT !.label = label]
Op(core, suffix, args) == Line("", "", core, suffix, args)
If(cond, raw) == [raw EXCEPT !.cond = cond]
Blank == Line("", "", "", "", <<>>)
Hlt == Op("HLT", "", <<>>)

\* Sources with labels that are reserved names (a register, mnemonics, an
\* alias, a hexadecimal literal) or defined twice, in capitals and not, at
\* the start of the line and after white space; a jump to a label that is
\* defined after white space only
LabelSources ==
    {<<Lbl(name, Hlt)>> : name \in {"ga", "MOV", "hlt", "ASH", "FFH", "IFZ"}}
    \cup {<<Lbl("Loop", Hlt), Lbl("LOOP", Op("JMP", "", <<RName("loop")>>))>>,
          <<Lbl("LOOP", Hlt), Op("JMP", "", <<RName("Loop")>>)>>,
          <<Indented(Lbl("LOOP", Hlt)), Indented(Lbl("LOOP", Hlt))>>,
          <<Lbl("LOOP", Hlt), Indented(Lbl("Loop", Hlt)), Op("JMP", "", <<RName("LOOP")>>)>>,
          <<Hlt, Indented(Lbl("GA", Hlt))>>,
          <<Op("JMP", "", <<RName("END")>>), Hlt, Indented(Lbl("END", Hlt))>>,
          <<Indented(Lbl("MOV", Op("MOV", "", <<RDec(5), RName("GA")>>)))>>}

\* The source files assembled
AsmSources ==
    {<<Op("JMP", "", <<RName("END")>>), Hlt, Lbl("END", Hlt)>>,
     <<If("IFZ", Op("JMP", "", <<RName("END")>>)), Hlt, Lbl("END", Hlt)>>,
     <<Lbl("LOOP", Op("MOV", "", <<RDec(5), RName("GA")>>)),
       If("IFNZ", Op("JMP", "", <<RName("LOOP")>>)), Hlt>>,
     <<Op("CALL", "", <<RName("SUB")>>), Hlt, Lbl("SUB", Op("RET", "", <<>>))>>,
     <<If("IFN", Op("CALL", "", <<RName("SUB")>>)), Hlt,
       Lbl("SUB", Op("RET", "", <<>>))>>,
     <<Op("JMP", "", <<RName("END")>>), Op("CALL", "", <<RName("END")>>),
       Lbl("END", Blank), Hlt>>,
     <<Op("JMP", "", <<RMem(4096)>>), Op("CALL", "", <<RName("GA")>>), Hlt>>,
     <<Op("MOV", "", <<RName("GA"), RMem(5000)>>)>>,
     <<Hlt, Op("MOV", "", <<RDec(5), RName("GA")>>),
       Op("ADD", "", <<RName("GB"), RMem(5000)>>)>>,
     <<Hlt, Op("FOO", "", <<RDec(1)>>)>>,
     <<Hlt, Op("MOV", "", <<RDec(5)>>)>>,
     <<Hlt, Op("MOV", "", <<RAt("GA"), RAt("GB")>>)>>,
     <<Hlt, Op("MOV", "", <<RDecW(999, 1), RName("GA")>>)>>,
     <<Op("MOV", "", <<RUnclosed, RName("GA")>>)>>,
     <<Hlt, Op("JMP", "", <<RName("NOWHERE")>>)>>,
     <<Lbl("GA", Hlt)>>,
     <<Lbl("TWICE", Hlt), Lbl("TWICE", Hlt)>>,
     <<Blank, Hlt>>}
    \cup LabelSources

\* What is at the destination path beforehand
OldDestinations == {NoFile, File(<<1>>)}

AsmInit ==
    /\ source \in AsmSources
    /\ allow_overwrite \in BOOLEAN
    /\ asm = NewAssembler({})
    /\ stage = "pass1"
    /\ raised = ""
    /\ files = [temp |-> NoFile, dest |-> File(<<1>>)]
       \/ files = [temp |-> NoFile, dest |-> NoFile]
    /\ hist = [dest0 |-> files.dest, pass2_out |-> <<>>, jumps |-> <<>>,
               label_at |-> {}]

AsmIdle ==
    /\ source = <<>>
    /\ allow_overwrite = TRUE
    /\ asm = NewAssembler({})
    /\ stage = "idle"
    /\ raised = ""
    /\ files = [temp |-> NoFile, dest |-> NoFile]
    /\ hist = [dest0 |-> NoFile, pass2_out |-> <<>>, jumps |-> <<>>,
               label_at |-> {}]

\* assemble_file, lines 429-440: collect the named references, then create
\* the temporary file
FindReferences ==
    /\ stage = "pass1"
    /\ IF Pass1Fails(source)
       THEN /\ stage' = "exit"
            /\ raised' = "CherrySyntaxError"
            /\ UNCHANGED <<asm, files>>
       ELSE /\ stage' = "pass2"
            /\ asm' = [asm EXCEPT !.named_references =
                           LabelsBefore(source, Len(source) + 1)]
            /\ files' = [files EXCEPT !.temp = File(<<>>)]
            /\ UNCHANGED raised
    /\ UNCHANGED <<source, allow_overwrite, hist>>

\* assemble_file, lines 444-460: one iteration of the line loop, with the
\* handler of the exception it may raise
AssembleNextLine ==
    /\ stage = "pass2"
    /\ asm.line_counter < Len(source)
    /\ LET raw == source[asm.line_counter + 1]
           res == assemble_instruction(raw, asm)
           here == Len(files.temp.bytes)
       IN  /\ asm' = [asm EXCEPT
                   !.ref_destinations = res.ref_destinations,
                   !.ref_sources = res.ref_sources,
                   !.current_bytecode_length =
                       IF res.status = "ok" THEN @ + Len(res.bytes) ELSE @,
                   !.line_counter = IF res.status = "ok" THEN @ + 1 ELSE @]
           /\ files' = [files EXCEPT !.temp =
                   IF res.status = "ok" THEN File(@.bytes \o res.bytes)
                   ELSE IF res.status = "CherrySyntaxError" THEN NoFile
                   ELSE @]
           /\ stage' = IF res.status = "ok" THEN "pass2" ELSE "exit"
           /\ raised' = IF res.status = "ok" THEN "" ELSE res.status
           /\ hist' = [hist EXCEPT
                   !.label_at = IF raw.label # ""
                                THEN DictSet(@, Fold(raw.label), here) ELSE @,
                   !.jumps = IF res.status = "ok"
                                /\ Len(res.ref_sources) > Len(asm.ref_sources)
                             THEN Append(@, [label |-> Fold(raw.args[1].name),
                                             opcode_at |-> here +
                                                 (IF raw.cond # "" THEN 1 ELSE 0)])
                             ELSE @]
    /\ UNCHANGED <<source, allow_overwrite>>

\* assemble_file, lines 463-482: back-patch the recorded sites and rename the
\* temporary file to the destination.  os.rename onto an existing file
\* replaces it or raises FileExistsError, by platform.
PatchAndRename ==
    /\ stage = "pass2"
    /\ asm.line_counter = Len(source)
    /\ LET patched == PatchAll(files.temp.bytes, asm.ref_sources,
                               asm.ref_destinations)
       IN  \E rename_raises \in BOOLEAN :
               /\ rename_raises => files.dest.exists
               /\ IF rename_raises /\ ~allow_overwrite
                  THEN /\ files' = [files EXCEPT !.temp = NoFile]
                       /\ raised' = "FileExistsError"
                  ELSE /\ files' = [temp |-> NoFile, dest |-> File(patched)]
                       /\ UNCHANGED raised
               /\ hist' = [hist EXCEPT !.pass2_out = files.temp.bytes]
    /\ stage' = "exit"
    /\ UNCHANGED <<source, allow_overwrite, asm>>

\* The bytes of the address field of the jump whose opcode is at offset o
AddressField(bytes, o) == PySlice(bytes, o + 1, o + 3)
InAddressField(i) ==
    \E k \in 1..Len(hist.jumps) :
        i \in {hist.jumps[k].opcode_at + 1, hist.jumps[k].opcode_at + 2}

Assembled == stage = "exit" /\ raised = ""

\* C4: for every JMP or CALL that references a label, with or without a
\* conditional prefix, after assemble_file finishes the two bytes directly
\* after its opcode byte hold the little-endian output offset of the label's
\* definition, and no other byte of the pass-2 output is altered by patching.
C4_LabelsResolved ==
    Assembled =>
        /\ \A k \in 1..Len(hist.jumps) :
               AddressField(files.dest.bytes, hist.jumps[k].opcode_at)
                   = AddressBytes(DictGet(hist.label_at, hist.jumps[k].label))
        /\ Len(files.dest.bytes) = Len(hist.pass2_out)
        /\ \A i \in 0..(Len(hist.pass2_out) - 1) :
               InAddressField(i) \/ files.dest.bytes[i + 1] = hist.pass2_out[i + 1]

\* C4, the unprefixed case: the same for sources whose jumps carry no
\* conditional prefix.
C4_UnprefixedResolved ==
    (\A n \in 1..Len(source) : source[n].cond = "") => C4_LabelsResolved

\* A line failed: the scan or the line loop raised
LineFailed ==
    stage = "exit" /\ raised # "" /\ raised # "FileExistsError"

\* C8: if assembling any line of the source fails, then when assemble_file
\* exits the temporary file no longer exists and the destination file has
\* been neither created nor modified.
C8_AllOrNothing ==
    LineFailed => ~files.temp.exists /\ files.dest = hist.dest0

\* C8, the syntax errors: the same for the failures raised as
\* CherrySyntaxError.
C8_SyntaxErrorsCleanUp ==
    (LineFailed /\ raised = "CherrySyntaxError") =>
        ~files.temp.exists /\ files.dest = hist.dest0

(***************************************************************************)
(* Machine specification: a bytecode file is loaded by execute_file and    *)
(* run; each step is one iteration of the loop of Machine.run.             *)
(***************************************************************************)
\* The assembler's fields after a line has been assembled with result res
AfterLine(self, res) ==
    [self EXCEPT
        !.ref_destinations = res.ref_destinations,
        !.ref_sources = res.ref_sources,
        !.current_bytecode_length =
            IF res.status = "ok" THEN @ + Len(res.bytes) ELSE @,
        !.line_counter = IF res.status = "ok" THEN @ + 1 ELSE @]

\* The bytes assemble_file writes to the destination for a source whose
\* lines are all accepted
RECURSIVE AssembleLines(_, _, _)
AssembleLines(src, self, out) ==
    IF self.line_counter >= Len(src)
    THEN PatchAll(out, self.ref_sources, self.ref_destinations)
    ELSE LET res == assemble_instruction(src[self.line_counter + 1], self)
         IN  IF res.status # "ok" THEN out
             ELSE AssembleLines(src, AfterLine(self, res), out \o res.bytes)

Assemble(src) ==
    AssembleLines(src, NewAssembler(LabelsBefore(src, Len(src) + 1)), <<>>)

\* page_length of execute_file
PageLength == 4096

\* Bounds: the loop iterations followed
MaxOperations == 8

Mov(s, a, b) == Op("MOV", s, <<a, b>>)
Add(s, a, b) == Op("ADD", s, <<a, b>>)
Cmp(s, a, b) == Op("CMP", s, <<a, b>>)
Sub(s, a, b) == Op("SUB", s, <<a, b>>)
Push(a) == Op("PUSH", "", <<a>>)
Pop(a) == Op("POP", "", <<a>>)
Ret == Op("RET", "", <<>>)
Shift(core, a, n) == Op(core, "", <<a, RDec(n)>>)

\* Pairs of byte operands: carries, sign changes, equal and unequal values
BytePairs ==
    {<<255, 1>>, <<1, 255>>, <<128, 128>>, <<255, 2>>, <<1, 1>>, <<200, 100>>, <<3, 250>>,
     <<0, 0>>, <<1, 2>>, <<2, 1>>}

ArithSources ==
    UNION {
        {<<Mov("B", RDec(p[2]), RName("GA")), Add("B", RDec(p[1]), RName("GA")), Hlt>>,
         <<Mov("B", RDec(p[2]), RName("GA")), Cmp("B", RDec(p[1]), RName("GA")),
           If("IFLT", Mov("", RDec(9), RName("GB"))), Hlt>>,
         <<Mov("", RDec(100), RName("GB")), Mov("", RDec(p[2]), RAt("GB")),
           Cmp("", RDec(p[1]), RAt("GB")), Hlt>>,
         <<Mov("", RDec(p[2]), RMem(100)), Cmp("", RDec(p[1]), RMem(100)),
           If("IFZ", Add("", RDec(p[1]), RMem(100))), Hlt>>,
         <<Mov("B", RDec(p[2]), RName("GA")), Mov("B", RDec(p[1]), RName("GB")),
           Cmp("B", RName("GB"), RName("GA")), Hlt>>}
        : p \in BytePairs}

\* SUB in its three forms on bytes, and on words
SubSources ==
    UNION {
        {<<Mov("B", RDec(p[2]), RName("GA")), Sub("B", RDec(p[1]), RName("GA")), Hlt>>,
         <<Mov("B", RDec(p[2]), RName("GA")), Mov("B", RDec(p[1]), RName("GB")),
           Sub("B", RName("GB"), RName("GA")), Hlt>>,
         <<Mov("", RDec(100), RName("GB")), Mov("", RDec(p[2]), RAt("GB")),
           Sub("", RDec(p[1]), RAt("GB")), Hlt>>,
         <<Mov("", RDec(p[2]), RMem(100)), Sub("", RDec(p[1]), RMem(100)), Hlt>>}
        : p \in BytePairs}
    \cup {<<Mov("", RDec(70000), RName("GA")), Sub("", RDec(300), RName("GA")), Hlt>>}

StackSources ==
    {<<Mov("", RHex(305419896), RName("GA")), Push(RName("GA")),
       Pop(RName("GB")), Hlt>>,
     <<Mov("B", RDec(77), RName("GA")), Push(RName("GAL")), Pop(RName("GBL")), Hlt>>,
     <<Pop(RName("GAL")), Mov("", RHex(305419896), RName("GA")), Push(RName("GA")),
       Pop(RName("GB")), Hlt>>,
     <<Push(RDec(7)), Push(RDec(300)), Pop(RName("GC")), Hlt>>}

CallSources ==
    {<<Mov("", RHex(305419896), RName("GA")), Op("CALL", "", <<RName("SUB")>>), Hlt,
       Lbl("SUB", Mov("", RDec(5), RName("GA"))), Cmp("", RDec(5), RName("GA")), Ret>>,
     <<Pop(RName("GAL")), Pop(RName("GAL")),
       Mov("", RHex(305419896), RName("GA")), Op("CALL", "", <<RName("SUB")>>), Hlt,
       Lbl("SUB", Ret)>>,
     <<Mov("", RDec(7), RName("GB")), Op("CALL", "", <<RName("OUTER")>>), Hlt,
       Lbl("OUTER", Mov("", RDec(8), RName("GB"))),
       Op("CALL", "", <<RName("INNER")>>), Ret,
       Lbl("INNER", Mov("", RDec(9), RName("GC"))), Ret>>,
     <<Mov("", RDec(12), RName("GA")), Op("CALL", "", <<RName("GAX")>>), Hlt,
       Blank, Blank, Blank, Blank, Blank, Ret>>}

SkipSources ==
    {<<If("IFZ", Mov("", RDec(5), RName("GA"))), If("IFN", Op("JMP", "", <<RMem(0)>>)),
       If("IFLT", Push(RName("GA"))), If("IFLTE", Op("CALL", "", <<RMem(0)>>)),
       If("IFNZ", Hlt)>>,
     <<Cmp("B", RDec(0), RName("GA")), If("IFNZ", Add("", RDec(1), RMem(300))),
       If("IFGT", Pop(RName("GB"))), If("IFN", Ret), If("IFZ", Hlt)>>,
     <<Op("JREL", "", <<RDec(3)>>), Hlt, If("IFNN", Op("JMP", "", <<RName("END")>>)),
       Mov("", RDec(1), RName("GA")), Lbl("END", Hlt)>>,
     <<Mov("B", RDec(1), RName("GA"))>>}

\* The shifts of a register, of a byte register and of memory, by 0 and by
\* more, under each of the four mnemonics
ShiftCounts == {0, 1, 3}
ShiftSources ==
    UNION {
        {<<Mov("", RDec(6), RName("GA")), Shift(c, RName("GA"), n), Hlt>>,
         <<Mov("", RDec(6), RName("GAL")), Shift(c, RName("GAL"), n), Hlt>>,
         <<Mov("", RDec(6), RMem(100)), Shift(c, RMem(100), n), Hlt>>}
        : c \in ShiftCores \cup AliasCores, n \in ShiftCounts}
\* An address in the last page of the memory
HighAddress == MemorySize - 536

\* MOV between registers, memory and literals (zero included), by bytes and
\* by words, in its three forms
MovSources ==
    UNION {
        {<<Mov("", RDec(v), RName("GA")), Mov("", RName("GA"), RName("GB")),
           Mov("", RDec(0), RName("GA")), Hlt>>,
         <<Mov("", RDec(v), RMem(100)), Mov("", RMem(100), RName("GA")),
           Mov("", RDec(0), RMem(100)), Hlt>>,
         <<Mov("", RDec(100), RName("GB")), Mov("", RDec(v), RAt("GB")),
           Mov("", RAt("GB"), RName("GA")), Mov("", RName("GA"), RAt("GC")),
           Mov("", RDec(0), RAt("GB")), Hlt>>}
        : v \in {42, 70000}}
    \cup {<<Mov("", RDec(200), RName("GAL")), Mov("", RName("GAL"), RName("GBL")),
            Mov("", RDec(0), RName("GAL")), Hlt>>,
          <<Mov("", RDec(200), RName("GDL")), Mov("", RMem(2), RName("GCL")), Hlt>>,
          <<Mov("", RDec(42), RMem(HighAddress)), Hlt>>,
          <<Mov("", RDec(HighAddress), RName("GB")), Mov("", RDec(42), RAt("GB")), Hlt>>,
          <<Mov("", RHex(305419896), RMem(MemorySize - 2)), Hlt>>,
          <<Mov("", RDec(MemorySize - 1), RName("GB")), Mov("", RHex(305419896), RAt("GB")),
            Hlt>>,
          <<Mov("", RDec(MemorySize + 4), RName("GB")), Mov("", RDec(42), RAt("GB")), Hlt>>}
\* Instructions under a conditional prefix that holds: CMP 0, GA sets Z and
\* clears N
TrueSources ==
    {<<Cmp("B", RDec(0), RName("GA")), If("IFZ", Op("JMP", "", <<RMem(9)>>)),
       Mov("B", RDec(1), RName("GA")), Hlt>>,
     <<Cmp("B", RDec(0), RName("GA")), If("IFNN", Op("JREL", "", <<RDec(6)>>)),
       Mov("B", RDec(1), RName("GA")), Hlt>>,
     <<Cmp("B", RDec(0), RName("GA")), If("IFGTE", Op("CALL", "", <<RMem(7)>>)),
       Hlt, If("IFLTE", Ret)>>,
     <<Cmp("B", RDec(0), RName("GA")), If("IFZ", Mov("", RDec(300), RName("GA"))),
       If("IFZ", Push(RName("GA"))), If("IFZ", Pop(RName("GB"))),
       If("IFZ", Sub("B", RDec(1), RName("GA"))), If("IFNZ", Mov("", RDec(7), RMem(100))),
       If("IFGT", Cmp("B", RDec(1), RName("GA"))), If("IFNN", Hlt)>>}
\* A jump into the last bytes of the memory
EndSources ==
    {<<Op("JMP", "", <<RMem(MemorySize - 6)>>)>>}
\* A word is put in GA, or at the address in GB, and one of its bits is
\* tested: every byte index with every bit index, on the word whose byte k
\* has bit k alone set and the word whose byte k has bit 3 - k alone set
Bbit(a, byte_index, bit_index) ==
    Op("BBIT", "", <<a, RDec(byte_index), RDec(bit_index)>>)
BitIndexes == 0..7
BbitWords == {RHex(134480385), RHex(16909320)}
BbitSources ==
    {<<Mov("", w, RName("GA")), Bbit(RName("GA"), k, b), Hlt>> :
        w \in BbitWords, k \in ByteIndexes, b \in BitIndexes}
    \cup {<<Mov("", RDec(HighAddress), RName("GB")), Mov("W", RHex(134480385), RAt("GB")),
            Bbit(RAt("GB"), k, 2), Hlt>> : k \in ByteIndexes}

\* A register is moved to a memory address beyond the program; the
\* addresses are those the assembler accepts in this pairing
StoreAddresses == {12, 14}
StoreSources ==
    {<<Mov("", RDec(42), RName(r)), Mov("", RName(r), RMem(a)), Hlt>> :
        r \in {"GA", "GAL"}, a \in StoreAddresses}

VMSources == StoreSources \cup ArithSources \cup SubSources \cup ShiftSources \cup MovSources \cup TrueSources \cup EndSources \cup StackSources \cup CallSources \cup SkipSources \cup BbitSources

\* Bytecode written by hand: PUSH-RW GA then POP-W with the pointer of GB;
\* a routine that pops into RI before it returns; a POP into FL of a byte
\* whose bit 7 is set (the opcode of the POP itself, read at SP = 0); a
\* lone HLT; the empty file
RawPrograms ==
    {<<49, 200, 120, 86, 52, 18, 161, 0, 163, 1, 1>>,
     <<18, 4, 0, 1, 163, 19, 20>>,
     <<162, 18, 1>>,
     <<1>>,
     <<>>}

\* Bytecode that cannot be decoded: an opcode that is not in the table (2;
\* 200, which has the bits of a conditional prefix), alone and under a
\* prefix, and op-add bytes of mode 11 with a reserved selector under MOV
\* (form 0 and form 1), ADD, CMP, PUSH, CALL and LSH
UndecodablePrograms ==
    {<<2, 1>>, <<200, 1, 1>>, <<192, 2, 1>>, <<193, 2, 1>>,
     <<48, 209, 1>>, <<50, 209, 42, 1>>, <<64, 233, 1>>, <<56, 240, 1>>,
     <<160, 208, 1>>, <<19, 216, 1>>, <<176, 248, 1, 1>>}

\* The files executed: a program as assembled (src is the source it was
\* assembled from), or followed by zeros up to the page length
ProgramFiles ==
    LET progs == {[head |-> Assemble(src), src |-> src] : src \in VMSources}
                     \cup {[head |-> p, src |-> <<>>] :
                              p \in RawPrograms \cup UndecodablePrograms}
    IN  {[head |-> p.head, n |-> Len(p.head), src |-> p.src] : p \in progs}
            \cup {[head |-> p.head, n |-> PageLength, src |-> p.src] : p \in progs}

NoFrames == <<>>

VMInit ==
    /\ program \in ProgramFiles
    /\ memory = NewMemory
    /\ halted = FALSE
    /\ crashed = ""
    /\ operation_counter = 0
    /\ vmstage = "constructed"
    /\ trail = <<>>
    /\ frames = NoFrames

VMIdle ==
    /\ program = [head |-> <<>>, n |-> 0, src |-> <<>>]
    /\ memory = NewMemory
    /\ halted = FALSE
    /\ crashed = ""
    /\ operation_counter = 0
    /\ vmstage = "idle"
    /\ trail = <<>>
    /\ frames = NoFrames

\* Machine.execute_file(path) up to the loop of run: the file's one page,
\* if it is not empty, is written to memory and IP is set to 0
ExecuteFile ==
    /\ vmstage = "constructed"
    /\ memory' = IF program.n = 0 THEN memory
                  ELSE MemAssign(memory, 0, PageLength, program.head, program.n)
    /\ regs' = write_to_register(regs, "IP", IntData(0))
    /\ vmstage' = "running"
    /\ UNCHANGED <<program, halted, crashed, operation_counter, trail, frames, written>>

\* next_instruction = self.memory.read(self.instruction_pointer, 16)
Fetch == Drive_read(memory, Register_value(regs, "IP"), FetchLength)

\* What the step does: "skip" under a false condition, else the mnemonic
\* core of the operation
StepKind(rs, raw_instruction) ==
    IF ~ConditionHolds(rs, raw_instruction) THEN "skip"
    ELSE mnemonic_core(ByteAt(Effective(raw_instruction), 0))

\* The machine after the iteration is m1; the step is remembered
Took(kind, m1, next_instruction) ==
    /\ regs' = m1.regs
    /\ memory' = m1.memory
    /\ halted' = m1.halted
    /\ crashed' = m1.err
    /\ operation_counter' =
           IF m1.halted \/ m1.err # "" THEN operation_counter
           ELSE operation_counter + 1
    /\ trail' =
           LET snapshot ==
                   [kind |-> kind, regs |-> regs, memory |-> memory,
                    instr |-> next_instruction,
                    nth |-> IF trail = <<>> THEN 1 ELSE trail[1].nth + 1,
                    frame |-> IF kind = "RET" /\ m1.err = "" /\ frames # NoFrames
                              THEN <<frames[1]>> ELSE <<>>]
           IN  IF trail = <<>> THEN <<snapshot>> ELSE <<snapshot, trail[1]>>
    /\ frames' =
           IF kind = "CALL" /\ m1.err = ""
           THEN <<[before |-> regs, mem_before |-> memory,
                   entered |-> m1.regs, mem_entered |-> m1.memory]>> \o frames
           ELSE IF kind = "RET" /\ m1.err = "" /\ frames # NoFrames THEN Tail(frames)
           ELSE frames

\* One iteration on next_instruction, if it is of one of the given kinds
StepOn(kinds, kind, next_instruction) ==
    /\ Len(next_instruction) = FetchLength
    /\ kind \in kinds
    /\ Took(kind, run_iteration(MachineOf(regs, memory), next_instruction),
            next_instruction)

\* One iteration of the loop of run, for the instructions of the given kinds
Step(kinds) ==
    /\ vmstage = "running"
    /\ ~halted
    /\ crashed = ""
    /\ operation_counter < MaxOperations
    /\ StepOn(kinds, StepKind(regs, Fetch), Fetch)
    /\ UNCHANGED <<program, vmstage, written>>

StepSkip == Step({"skip"})
StepPush == Step({"PUSH"})
StepPop == Step({"POP"})
StepMov == Step({"MOV"})
StepAddSub == Step({"ADD", "SUB"})
StepCmp == Step({"CMP"})
StepJump == Step({"JMP", "JREL"})
StepCall == Step({"CALL"})
StepRet == Step({"RET"})
StepHlt == Step({"HLT"})
StepNop == Step({"NOP"})
StepShift == Step(ShiftCores)
StepBbit == Step({"BBIT"})

(***************************************************************************)
(* Properties of the machine.  trail[1] is the state before the last       *)
(* iteration of the loop of run, with the instruction it fetched.          *)
(***************************************************************************)
FlagNow(flag) == get_flag(regs, flag)

\* The last iteration was of the given kind and raised nothing
LastStepWas(kind) == trail # <<>> /\ trail[1].kind = kind /\ crashed = ""

\* C6: after a step on an instruction whose conditional prefix is false, IP
\* is IP before plus the decoded length of the whole prefixed instruction,
\* and no other register, no flag and no memory byte has changed.
C6_ConditionalSkip ==
    LastStepWas("skip") =>
        /\ Register_value(regs, "IP")
               = Register_value(trail[1].regs, "IP")
                     + instruction_length(trail[1].regs, trail[1].instr).n
        /\ \A n \in RegNames \ {"IP"} : regs[n] = trail[1].regs[n]
        /\ memory = trail[1].memory

C6_Witness ==
    /\ LastStepWas("skip")
    /\ SubSeq(trail[1].instr, 1, 7) = <<192, 49, 200, 5, 0, 0, 0>>
    /\ Register_value(trail[1].regs, "IP") = 0
    /\ Register_value(regs, "IP") = 7

\* The machine before the last iteration, and the instruction it executed
\* (the fetched bytes after the conditional prefix)
Before == MachineOf(trail[1].regs, trail[1].memory)
Executed == Effective(trail[1].instr)

\* The destination operand of ADD, SUB and CMP as the machine m holds it:
\* the secondary operand of the form
Destination(m, instruction) ==
    IF Form(ByteAt(instruction, 0)) = 0 THEN ArithB(m, instruction)
    ELSE ArithA(m, instruction)

\* The primary (source) operand of the form
Source(m, instruction) ==
    IF Form(ByteAt(instruction, 0)) = 0 THEN ArithA(m, instruction)
    ELSE ArithB(m, instruction)

\* The last iteration executed the byte-width ADD of two operands that,
\* read as unsigned bytes, sum past 0xFF
ByteAddPast255 ==
    /\ LastStepWas("ADD")
    /\ mnemonic_core(ByteAt(Executed, 0)) = "ADD"
    /\ OperandSize(ByteAt(Executed, 0)) = 1
    /\ Form(ByteAt(Executed, 0)) \in 0..2
    /\ BytesValue(Source(Before, Executed).v)
           + BytesValue(Destination(Before, Executed).v) > 255

\* C7: a byte-width ADD whose operands, read as unsigned bytes, sum past
\* 0xFF leaves the destination byte equal to the sum modulo 256, sets Z when
\* that byte is 0, and sets C.
C7_AddWithCarry ==
    ByteAddPast255 =>
        /\ BytesValue(Destination(MachineOf(regs, memory), Executed).v)
               = (BytesValue(Source(Before, Executed).v)
                      + BytesValue(Destination(Before, Executed).v)) % 256
        /\ (BytesValue(Destination(MachineOf(regs, memory), Executed).v) = 0
                => FlagNow("Z"))
        /\ FlagNow("C")

\* The last iteration executed a CMP of one of the three forms
Compared ==
    /\ LastStepWas("CMP")
    /\ Form(ByteAt(Executed, 0)) \in 0..2

\* C10: CMP sets Z iff its operands are equal and N iff the primary operand
\* is less than the secondary operand as signed integers, in form 0, form 1
\* and form 2.
C10_CmpFlags ==
    Compared =>
        /\ FlagNow("Z") = (signed_int(Source(Before, Executed).v)
                               = signed_int(Destination(Before, Executed).v))
        /\ FlagNow("N") = (signed_int(Source(Before, Executed).v)
                               < signed_int(Destination(Before, Executed).v))

\* C10, form 0 alone.
C10_CmpFlagsOpAdd ==
    (Compared /\ Form(ByteAt(Executed, 0)) = 0) => C10_CmpFlags

\* The register a POP instruction writes: register_names[register_pointers[
\* instruction[1]]]
Popped(instruction) == register_pointers(ByteAt(instruction, 1))

\* The register a PUSH instruction reads, rs being the registers before it
Pushed(rs, instruction, operand_size) ==
    op_add_primary(rs, ByteAt(instruction, 1), operand_size)

\* The width of a PUSH or POP instruction, from the suffix of its mnemonic
StackWidth(instruction) ==
    IF mnemonic_suffix(ByteAt(instruction, 0)) \in {"RW", "LW", "W"} THEN 4 ELSE 1

\* The last two iterations executed the PUSH of a register and then the POP
\* of the same width into another register
PushedThenPopped ==
    /\ Len(trail) = 2
    /\ trail[2].kind = "PUSH"
    /\ LastStepWas("POP")
    /\ mnemonic_suffix(ByteAt(Effective(trail[2].instr), 0)) \in {"RB", "RW"}
    /\ StackWidth(Effective(trail[2].instr)) = StackWidth(Executed)
    /\ Pushed(trail[2].regs, Effective(trail[2].instr), StackWidth(Executed)).type
           = "register"
    /\ Pushed(trail[2].regs, Effective(trail[2].instr), StackWidth(Executed)).name
           # Popped(Executed)

\* C3: the PUSH of a register of width w holding v, with SP = s, followed by
\* the POP of width w into another register leaves the popped register equal
\* to v and SP equal to s.
C3_PushPopRoundTrip ==
    PushedThenPopped =>
        /\ regs[Popped(Executed)]
               = trail[2].regs[Pushed(trail[2].regs, Effective(trail[2].instr),
                                      StackWidth(Executed)).name]
        /\ regs["SP"] = trail[2].regs["SP"]

\* C3, the stack pointer alone.
C3_StackPointerRestored ==
    PushedThenPopped => regs["SP"] = trail[2].regs["SP"]

\* The bytes push_all_registers writes: the sizes of the saved registers
RECURSIVE SizeOfAll(_)
SizeOfAll(names) ==
    IF names = <<>> THEN 0 ELSE RegSize[names[1]] + SizeOfAll(Tail(names))

FrameSize == SizeOfAll(save_on_call)

\* The FrameSize addresses below sp, the value of SP before the CALL, around
\* the end of memory: where the CALL wrote the registers
FrameAddresses(sp) == {(sp + MemorySize - k) % MemorySize : k \in 1..FrameSize}

\* The last iteration executed the RET of a routine that had been entered
\* by a CALL and that left RS, RI and the bytes the CALL wrote as they were
ReturnedUntouched ==
    /\ LastStepWas("RET")
    /\ trail[1].frame # <<>>
    /\ trail[1].regs["RS"] = trail[1].frame[1].entered["RS"]
    /\ trail[1].regs["RI"] = trail[1].frame[1].entered["RI"]
    /\ trail[1].memory.len = trail[1].frame[1].mem_entered.len
    /\ \A a \in FrameAddresses(Register_value(trail[1].frame[1].before, "SP")) :
           MemCell(trail[1].memory, a) = MemCell(trail[1].frame[1].mem_entered, a)

\* C2: after the RET of a routine that has not modified RS, RI or the stack
\* bytes written by the CALL, each of GA, GB, GC, GD, FL, RI and RS holds
\* the value it had immediately before the CALL, and SP its value before
\* the CALL.
C2_CallReturnNeutral ==
    ReturnedUntouched =>
        /\ \A i \in 1..Len(save_on_call) :
               regs[save_on_call[i]] = trail[1].frame[1].before[save_on_call[i]]
        /\ regs["SP"] = trail[1].frame[1].before["SP"]

\* C2, for a memory of full size that holds the whole frame below its end:
\* the file filled its page and SP was 0 before the CALL.
C2_FrameInsideMemory ==
    (/\ ReturnedUntouched
     /\ trail[1].frame[1].mem_before.len = MemorySize
     /\ Register_value(trail[1].frame[1].before, "SP") = 0) =>
        C2_CallReturnNeutral

\* C2, for a memory of full size, wherever SP was.
C2_FullMemory ==
    (ReturnedUntouched /\ trail[1].frame[1].mem_before.len = MemorySize) =>
        C2_CallReturnNeutral

\* The last iteration executed a SUB of one of the three forms
Subtracted ==
    /\ LastStepWas("SUB")
    /\ Form(ByteAt(Executed, 0)) \in 0..2

\* secondary - primary, the operands read as signed integers before the SUB
Difference ==
    signed_int(Destination(Before, Executed).v) - signed_int(Source(Before, Executed).v)

\* n modulo 2^(8 * width), for the integers of the model (a word is below
\* 2^31 here)
ModWidth(n, width) == IF width = 1 THEN n % 256 ELSE n

\* C11: in form 0, form 1 and form 2, SUB writes (secondary - primary)
\* modulo 2^(8 * width) to the secondary operand and sets N iff
\* secondary - primary < 0.
C11_SubResult ==
    (Subtracted /\ (OperandSize(ByteAt(Executed, 0)) = 4 => Difference >= 0)) =>
        /\ BytesValue(Destination(MachineOf(regs, memory), Executed).v)
               = ModWidth(Difference, OperandSize(ByteAt(Executed, 0)))
        /\ FlagNow("N") = (Difference < 0)

\* C11, form 0 alone.
C11_SubResultOpAdd ==
    (Subtracted /\ Form(ByteAt(Executed, 0)) = 0) => C11_SubResult

\* The shift instruction's operand as the machine m holds it: the cell at
\* the given address, or the primary operand of the op-add byte
ShiftHasAddress(instruction) ==
    mnemonic_suffix(ByteAt(instruction, 0)) \in {"MEMB", "MEMW"}
ShiftWidth(instruction) ==
    IF mnemonic_suffix(ByteAt(instruction, 0)) \in {"W", "MEMW"} THEN 4 ELSE 1
ShiftOperand(m, instruction) ==
    IF ShiftHasAddress(instruction)
    THEN Drive_read(m.memory, BytesValue(PySlice(instruction, 1, 3)),
                    ShiftWidth(instruction))
    ELSE read_op_add(m, ByteAt(instruction, 1), "p", ShiftWidth(instruction)).v

\* The trailing byte of the shift instruction: the count plus the variant
ShiftCount(instruction) ==
    ByteAt(instruction, IF ShiftHasAddress(instruction) THEN 3 ELSE 2)

\* The last iteration executed a logical shift by a count in 0..31
Shifted ==
    /\ LastStepWas("LSH") \/ LastStepWas("RSH")
    /\ ShiftCount(Executed) \in 0..31

\* v shifted logically by n in an operand of the given width
ShiftedValue(core, v, n, width) ==
    IF core = "LSH" THEN ModWidth(v * Pow2(n), width) ELSE v \div Pow2(n)

\* C12: executing an assembled shift instruction with a count in 0..31
\* replaces the destination operand with its value shifted by the count
\* (LSH to the left, RSH to the right).
C12_ShiftApplied ==
    Shifted =>
        BytesValue(ShiftOperand(MachineOf(regs, memory), Executed))
            = ShiftedValue(mnemonic_core(ByteAt(Executed, 0)),
                           BytesValue(ShiftOperand(Before, Executed)),
                           ShiftCount(Executed), ShiftWidth(Executed))

\* C12, seen from the other side: a shift instruction leaves every register
\* but IP, and the memory, as they were.
C12_ShiftChangesNothing ==
    Shifted =>
        /\ \A n \in RegNames \ {"IP"} : regs[n] = trail[1].regs[n]
        /\ memory = trail[1].memory

\* The last iteration executed a MOV of one of the three forms
Moved ==
    /\ LastStepWas("MOV")
    /\ Form(ByteAt(Executed, 0)) \in 0..2

\* Where the MOV executed writes: the secondary operand of the op-add byte
\* in form 0 and form 1, the cell at the given address in form 2
MovTarget ==
    IF Form(ByteAt(Executed, 0)) = 2
    THEN Operand("memory", "", BytesValue(PySlice(Executed, 1, 3)), "")
    ELSE op_add_secondary(trail[1].regs, ByteAt(Executed, 1),
                          OperandSize(ByteAt(Executed, 0)))

\* c is a child, or a child of a child, of p
RegBelow(p, c) ==
    \/ \E q \in RegChildren[p] : q[1] = c
    \/ \E q \in RegChildren[p] : \E r \in RegChildren[q[1]] : r[1] = c

\* The register n and its aliases: the registers that share bytes with it
RegAliases(n) ==
    {r \in RegNames :
        \/ r = n \/ RegBelow(n, r) \/ RegBelow(r, n)
        \/ \E p \in RegNames : RegBelow(p, n) /\ RegBelow(p, r)}

\* The registers and the addresses the MOV may change
MovRegisters ==
    {"IP"} \cup (IF MovTarget.type = "register" THEN RegAliases(MovTarget.name) ELSE {})
MovAddresses ==
    IF MovTarget.type = "memory"
    THEN MovTarget.address .. (MovTarget.address + OperandSize(ByteAt(Executed, 0)) - 1)
    ELSE {}

\* The addresses of the cells that hold a non-zero byte before or after
CellsHeld == {q[1] : q \in memory.cells \cup trail[1].memory.cells}

\* C13: MOV in any form leaves the destination's width bytes equal to the
\* source value, changes no flag bit, and changes no register or memory byte
\* other than the destination, the destination's aliases and IP, which
\* advances by the instruction length.
C13_MovFrame ==
    Moved =>
        /\ Destination(MachineOf(regs, memory), Executed).v = Source(Before, Executed).v
        /\ Len(Source(Before, Executed).v) = OperandSize(ByteAt(Executed, 0))
        /\ regs["FL"] = trail[1].regs["FL"]
        /\ \A n \in RegNames \ MovRegisters : regs[n] = trail[1].regs[n]
        /\ memory.len = trail[1].memory.len
        /\ \A a \in CellsHeld \ MovAddresses :
               MemCell(memory, a) = MemCell(trail[1].memory, a)
        /\ Register_value(regs, "IP")
               = Register_value(trail[1].regs, "IP")
                     + instruction_length(trail[1].regs, trail[1].instr).n

\* The bytes the MOV writes to lie inside the memory as it is before
MovInsideMemory ==
    \A a \in MovAddresses : a < trail[1].memory.len

\* C13, for a destination that lies inside the memory as it is.
C13_MovFrameInside == (Moved /\ MovInsideMemory) => C13_MovFrame

\* The last iteration ran an instruction under a conditional prefix that
\* held
RanUnderPrefix ==
    /\ trail # <<>>
    /\ IsConditional(trail[1].instr)
    /\ ConditionHolds(trail[1].regs, trail[1].instr)

\* The machine after an iteration from the same state on the same
\* instruction without its prefix
Unprefixed == run_iteration(Before, Tail(trail[1].instr))

\* The registers that hold an instruction address: IP, and RI after a CALL
AddressRegisters == {"IP", "RI"}

\* C14: when a conditional prefix evaluates true, the instruction that
\* follows the prefix byte executes with exactly the effect it would have
\* un-prefixed (the addresses that follow the instruction are one byte
\* further on); IFZ JMP target with Z = 1 sets IP to target.
C14_TruePrefix ==
    RanUnderPrefix =>
        /\ crashed = Unprefixed.err
        /\ crashed = "" =>
            /\ halted = Unprefixed.halted
            /\ memory = Unprefixed.memory
            /\ \A n \in RegNames \ AddressRegisters : regs[n] = Unprefixed.regs[n]
            /\ Register_value(regs, "IP") =
                   Register_value(Unprefixed.regs, "IP")
                       + (IF trail[1].kind \in {"JMP", "JREL", "CALL", "RET", "HLT"}
                          THEN 0 ELSE 1)
            /\ Register_value(regs, "RI") =
                   Register_value(Unprefixed.regs, "RI")
                       + (IF trail[1].kind = "CALL" THEN 1 ELSE 0)
            /\ trail[1].kind = "JMP" =>
                   Register_value(regs, "IP") = BytesValue(PySlice(Executed, 1, 3))

C14_Witness ==
    /\ RanUnderPrefix
    /\ crashed = ""
    /\ trail[1].kind = "JMP"
    /\ mnemonic_core(ByteAt(trail[1].instr, 0)) = "IFZ"
    /\ Register_value(regs, "IP")
           > Register_value(trail[1].regs, "IP")
                 + instruction_length(trail[1].regs, trail[1].instr).n

\* The fetched opcode byte (the first byte, or the byte after a conditional
\* prefix of the table) is not in the opcode table
UnknownOpcode(raw_instruction) ==
    \/ ~InOpcodes(ByteAt(raw_instruction, 0))
    \/ IsConditional(raw_instruction) /\ ~InOpcodes(ByteAt(raw_instruction, 1))

\* The opcodes of the table that are followed by an op-add byte
HasOpAddByte(opcode) ==
    /\ InOpcodes(opcode)
    /\ \/ /\ mnemonic_core(opcode) \in TwoArgCores \cup ShiftCores
          /\ mnemonic_suffix(opcode) \in {"B", "W", "LITINDB", "LITINDW"}
       \/ mnemonic_core(opcode) \in {"PUSH", "POP"}
       \/ mnemonic_core(opcode) = "CALL" /\ mnemonic_suffix(opcode) = "REG"

\* op_add has mode 11 and a reserved special selector
ReservedSelector(op_add) ==
    /\ BitField(op_add, 6, 8) = 3
    /\ BitField(op_add, 3, 6) \in {2, 3, 5, 6, 7}

\* The instruction to execute (its condition holds, if it has one) has an
\* op-add byte with a reserved selector
ReservedOpAdd(rs, raw_instruction) ==
    /\ InOpcodes(ByteAt(raw_instruction, 0))
    /\ ConditionHolds(rs, raw_instruction)
    /\ HasOpAddByte(ByteAt(Effective(raw_instruction), 0))
    /\ ReservedSelector(ByteAt(Effective(raw_instruction), 1))

\* The last iteration raised an exception and changed nothing
RaisedUnchanged ==
    /\ crashed # ""
    /\ ~halted
    /\ regs = trail[1].regs
    /\ memory = trail[1].memory

\* C15: when the fetched opcode byte is not in the opcode table, or an
\* op-add byte has mode 11 with a reserved special selector, the machine
\* raises an exception for that instruction, changes no register, flag or
\* memory byte, and executes no later instruction.
C15_DecodingErrorFatal ==
    (/\ trail # <<>>
     /\ \/ UnknownOpcode(trail[1].instr)
        \/ ReservedOpAdd(trail[1].regs, trail[1].instr))
        => RaisedUnchanged

\* C15, for an unknown opcode that does not have the bits of a conditional
\* prefix.
C15_UnknownOpcodeFatal ==
    (/\ trail # <<>>
     /\ UnknownOpcode(trail[1].instr)
     /\ InOpcodes(ByteAt(trail[1].instr, 0)) \/ ~IsConditional(trail[1].instr))
        => RaisedUnchanged

\* C15, for the reserved selector of an operand that get_op_add_primary or
\* read_op_add reads: form 0 of the two-operand instructions, PUSH, CALL.
C15_ReservedPrimaryFatal ==
    (/\ trail # <<>>
     /\ ReservedOpAdd(trail[1].regs, trail[1].instr)
     /\ \/ trail[1].kind \in {"PUSH", "CALL"}
        \/ trail[1].kind \in TwoArgCores /\ Form(ByteAt(Executed, 0)) = 0)
        => RaisedUnchanged

\* The last iteration executed a MOV that writes to the memory, at the
\* address of a 2-byte address field or of a 4-byte register
WroteMemory ==
    /\ Moved
    /\ MovTarget.type = "memory"
    /\ MovTarget.err = ""

\* The address written at, and the data written
WrittenAt == MovTarget.address
WrittenData == Source(Before, Executed).v

\* C16: after a memory write of L bytes at address A, the memory still
\* holds exactly 65536 bytes, bytes [A, min(A + L, 65536)) equal the leading
\* bytes of the written data, and every other byte keeps its previous value
\* at its previous address.
C16_WriteKeepsMemory ==
    WroteMemory =>
        /\ memory.len = MemorySize
        /\ \A i \in 1..Len(WrittenData) :
               WrittenAt + i - 1 < MemorySize =>
                   MemCell(memory, WrittenAt + i - 1) = WrittenData[i]
        /\ \A a \in CellsHeld \ MovAddresses :
               MemCell(memory, a) = MemCell(trail[1].memory, a)

\* C16, for a memory that holds 65536 bytes before the write.
C16_WriteKeepsFullMemory ==
    (WroteMemory /\ trail[1].memory.len = MemorySize) => C16_WriteKeepsMemory

\* execute_file has written the file to the memory and run has not yet
\* fetched an instruction
Loaded == vmstage = "running" /\ trail = <<>>

\* Bytes [0, L) of the memory are the bytes of the file and every other
\* byte is zero
LoadedContent ==
    /\ \A i \in 1..Len(program.head) : MemCell(memory, i - 1) = program.head[i]
    /\ \A q \in memory.cells : q[1] < Len(program.head)

\* C17: loading a bytecode file of length L leaves memory bytes [0, L) equal
\* to the file's bytes, every byte at an address >= L zero, and the memory
\* still exactly 65536 bytes long.
C17_LoadKeepsMemory ==
    Loaded => (LoadedContent /\ memory.len = MemorySize)

\* C17, as the code has it: the content is as claimed, and the memory is
\* shorter by what a file that is not empty lacks of a page.
C17_LoadShortens ==
    Loaded =>
        /\ LoadedContent
        /\ memory.len = IF program.n = 0 THEN MemorySize
                        ELSE MemorySize - (PageLength - program.n)

\* Addresses and lengths of reads: the first bytes, a page on, and the last
\* bytes of the memory; a byte, a word and an instruction fetch
ReadAddresses ==
    {0, PageLength, MemorySize - FetchLength, MemorySize - FetchLength + 1,
     MemorySize - 1}
ReadLengths == {1, 4, FetchLength}

\* C18: a memory read of n bytes returns exactly n bytes for every address
\* in 0x0000..0xFFFF, including the 16-byte instruction fetch when IP is
\* within the last 15 bytes of memory.
C18_ReadLength ==
    vmstage = "running" =>
        /\ Register_value(regs, "IP") < MemorySize => Len(Fetch) = FetchLength
        /\ \A a \in ReadAddresses : \A n \in ReadLengths :
               Len(Drive_read(memory, a, n)) = n

\* C18, for the reads that end inside the memory as it is.
C18_ReadLengthInside ==
    vmstage = "running" =>
        /\ Register_value(regs, "IP") + FetchLength <= memory.len
               => Len(Fetch) = FetchLength
        /\ \A a \in ReadAddresses : \A n \in ReadLengths :
               a + n <= memory.len => Len(Drive_read(memory, a, n)) = n

\* The lines of src that define a label: those that begin, after any white
\* space, with a name and a colon
Definitions(src) == {n \in 1..Len(src) : src[n].label # ""}

\* Two label definitions of src are equal ignoring case, or a defined label
\* is a reserved name
DefinedTwice(src) ==
    \E n \in Definitions(src) : \E m \in Definitions(src) :
        m # n /\ Fold(src[m].label) = Fold(src[n].label)
DefinedReserved(src) ==
    \E n \in Definitions(src) : is_reserved_name(src[n].label)

\* Pass 1 has accepted the source: the temporary file has been created
Pass1Accepted == stage = "pass2"

\* C19: pass 1 of assemble_file rejects every source in which two label
\* definitions are equal ignoring case or in which a defined label equals a
\* mnemonic, a register name or a valid literal; in every source it accepts,
\* each label has exactly one definition.
C19_Pass1Rejects ==
    Pass1Accepted => (~DefinedTwice(source) /\ ~DefinedReserved(source))

\* C19, for the sources whose label definitions all start their line.
C19_UnindentedRejected ==
    (\A n \in 1..Len(source) : ~source[n].indent) => C19_Pass1Rejects

\* Pass 1 raises before a file is created or changed.
C19_RejectsBeforeFiles ==
    [][(stage = "pass1" /\ Pass1Fails(source)) =>
           (stage' = "exit" /\ raised' = "CherrySyntaxError" /\ files' = files)]_<<stage, source, files>>

(***************************************************************************)
(* The width a -B or -W suffix asks for, against the bytes emitted for the *)
(* line                                                                    *)
(***************************************************************************)
\* The width the suffix of the line forces, 0 when it forces none
ForcedWidth ==
    IF line.suffix = "B" THEN 1 ELSE IF line.suffix = "W" THEN 4 ELSE 0

\* The emitted opcode stands after the conditional prefix, if there is one
PrefixBytes == IF line.cond = "" THEN 0 ELSE 1
EmittedVariant ==
    CHOOSE g \in Instructions : g.code = emitted.bytes[PrefixBytes + 1]

\* The width of an opcode variant is the last letter of its suffix
VariantWidth(g) == IF g.suffix \in {"B", "LITINDB", "LITMEMB"} THEN 1 ELSE 4

LiteralKinds == {"dec", "hex", "bin"}
ToRegister == line.args[2].kind = "name"

\* A literal is emitted as immediate bytes unless it is a zero going to a
\* register, which the op-add byte alone denotes
HasImmediate ==
    /\ line.args[1].kind \in LiteralKinds
    /\ line.args[1].n # 0 \/ ~ToRegister

\* The bytes after the prefix, the opcode and the op-add byte or the two
\* bytes of the destination address
ImmediateCount ==
    Len(emitted.bytes) - PrefixBytes - 1
        - (IF line.args[2].kind = "mem" THEN 2 ELSE 1)

ForcedLine ==
    /\ emitted.status = "ok"
    /\ line.core \in TwoArgCores
    /\ ForcedWidth # 0

FollowsForcedWidth ==
    /\ VariantWidth(EmittedVariant) = ForcedWidth
    /\ HasImmediate => ImmediateCount = ForcedWidth

DecimalToMemory == line.args[1].kind = "dec" /\ ~ToRegister

\* C20: for every accepted line of MOV, ADD, SUB, CMP, AND, OR or XOR with
\* a -B or -W suffix, whatever the operand pairing (a decimal literal going
\* to an indirect or memory destination included), the opcode variant
\* emitted has the forced width and an immediate literal takes as many bytes
\* as the forced width (1 for -B, 4 for -W).
C20_ForcedWidth == ForcedLine => FollowsForcedWidth

\* C20, as far as it holds: every pairing but a decimal literal going to an
\* indirect or memory destination follows the forced width.
C20_ForcedWidthElsewhere ==
    (ForcedLine /\ ~DecimalToMemory) => FollowsForcedWidth

\* C20, what happens instead: a decimal literal going to an indirect or
\* memory destination keeps the width of its own text (its :1 or :4 suffix,
\* else 1 byte within -127..255 and 4 bytes beyond), whatever was forced.
C20_DecimalKeepsOwnWidth ==
    (ForcedLine /\ DecimalToMemory) =>
        LET own == integer_arg_length(line.args[1].n, line.args[1].width)
        IN  VariantWidth(EmittedVariant) = own /\ ImmediateCount = own

(***************************************************************************)
(* The width chosen for a line without a width suffix                      *)
(***************************************************************************)
Unsuffixed ==
    /\ emitted # NotAssembled
    /\ line.core \in TwoArgCores
    /\ line.suffix = ""

IsRegister(raw) == raw.kind = "name" /\ raw.name \in RegNames

\* The operand width an instruction on the register has: a word for a
\* 4-byte register, a byte otherwise
RegisterWidth(raw) == IF RegSize[raw.name] = 4 THEN 4 ELSE 1

MixedRegisters ==
    /\ Unsuffixed
    /\ line.core = "MOV"
    /\ IsRegister(line.args[1]) /\ IsRegister(line.args[2])
    /\ RegisterWidth(line.args[1]) # RegisterWidth(line.args[2])

\* A literal whose text makes it 4 bytes long, going to a 1-byte register
WideToNarrow ==
    /\ Unsuffixed
    /\ line.args[1].kind \in {"dec", "hex"}
    /\ integer_arg_length(line.args[1].n, line.args[1].width) = 4
    /\ IsRegister(line.args[2]) /\ RegSize[line.args[2].name] = 1

\* C21: without a width suffix, a MOV between two registers of different
\* sizes is assembled with the width of the destination (second) register,
\* and a two-operand instruction whose first operand is a 4-byte literal and
\* whose second operand is a 1-byte register is rejected with a syntax error.
C21_DestinationWidth ==
    /\ MixedRegisters =>
           /\ emitted.status = "ok"
           /\ VariantWidth(EmittedVariant) = RegisterWidth(line.args[2])
    /\ WideToNarrow => emitted.status = "CherrySyntaxError"

\* C21, what happens instead: the width is that of the first register
\* operand, the source of a register-to-register MOV.
C21_SourceWidth ==
    MixedRegisters =>
        /\ emitted.status = "ok"
        /\ VariantWidth(EmittedVariant) = RegisterWidth(line.args[1])

\* C21, what happens instead: a 4-byte literal going to a 1-byte register is
\* accepted and assembled as a byte instruction, the literal cut to its low
\* byte (no immediate at all for a zero).
C21_WideLiteralCut ==
    WideToNarrow =>
        /\ emitted.status = "ok"
        /\ VariantWidth(EmittedVariant) = 1
        /\ IF line.args[1].n = 0 THEN ImmediateCount = 0
           ELSE /\ ImmediateCount = 1
                /\ emitted.bytes[Len(emitted.bytes)] = line.args[1].n % 256

(***************************************************************************)
(* The distances JREL accepts                                              *)
(***************************************************************************)
JrelAssembled ==
    /\ emitted # NotAssembled
    /\ line.core = "JREL"
    /\ line.args[1].kind = "dec" /\ line.args[1].width = 0

JrelDistance == line.args[1].n

\* C22: JREL with an un-suffixed decimal immediate n is accepted exactly
\* when -128 <= n <= 127; every other value is rejected as an oversize
\* relative jump (a syntax error).
C22_JrelRange ==
    JrelAssembled =>
        IF 0 - 128 <= JrelDistance /\ JrelDistance <= 127
        THEN emitted.status = "ok"
        ELSE emitted.status = "CherrySyntaxError"

\* C22, what happens instead: the distances accepted are those the
\* assembler takes for one byte long, -127 to 255, and the byte emitted
\* after the opcode is the distance modulo 256.
C22_JrelOneByte ==
    JrelAssembled =>
        IF 0 - 127 <= JrelDistance /\ JrelDistance <= 255
        THEN /\ emitted.status = "ok"
             /\ emitted.bytes[Len(emitted.bytes)] = JrelDistance % 256
             /\ Len(emitted.bytes) = PrefixBytes + 2
        ELSE emitted.status = "CherrySyntaxError"

(***************************************************************************)
(* Decimal literals with a width suffix                                    *)
(***************************************************************************)
SuffixedDecimal ==
    /\ emitted # NotAssembled
    /\ line \in SuffixedLines

LiteralValue == line.args[1].n
LiteralWidth == line.args[1].width

\* -2^(8w-1) <= n <= 2^(8w) - 1; every integer of the model is within the
\* range of 4 bytes
Representable(n, w) == w = 4 \/ (0 - 128 <= n /\ n <= 255)

\* The last w bytes emitted are n modulo 2^(8w), low byte first
RECURSIVE LittleEndian(_, _)
LittleEndian(n, w) ==
    IF w = 0 THEN <<>> ELSE <<n % 256>> \o LittleEndian(n \div 256, w - 1)

EmittedLiteral ==
    SubSeq(emitted.bytes, Len(emitted.bytes) - LiteralWidth + 1, Len(emitted.bytes))

\* C23: a decimal literal with a width suffix :1 or :4 is accepted only when
\* its value is representable in that width (-2^(8w-1) to 2^(8w) - 1) and is
\* a syntax error otherwise; an accepted literal is emitted as its value
\* modulo 2^(8w), so that two accepted literals of different values have the
\* same bytes only as the signed and unsigned readings of one bit pattern.
C23_SuffixedRange ==
    SuffixedDecimal =>
        IF Representable(LiteralValue, LiteralWidth)
        THEN /\ emitted.status = "ok"
             /\ EmittedLiteral = LittleEndian(LiteralValue, LiteralWidth)
        ELSE emitted.status = "CherrySyntaxError"

\* C23, what happens instead: a negative literal is accepted down to
\* -2^(8w), so -256:1 to -129:1 are accepted too.
C23_SuffixedAccepted ==
    SuffixedDecimal =>
        IF LiteralWidth = 4 \/ (0 - 256 <= LiteralValue /\ LiteralValue <= 255)
        THEN /\ emitted.status = "ok"
             /\ EmittedLiteral = LittleEndian(LiteralValue, LiteralWidth)
        ELSE emitted.status = "CherrySyntaxError"

\* C23, what happens instead: -200:1 is emitted as the byte 56, as 56:1 is.
C23_Collision ==
    (SuffixedDecimal /\ LiteralValue = 0 - 200 /\ LiteralWidth = 1) =>
        /\ emitted.status = "ok"
        /\ EmittedLiteral = LittleEndian(56, 1)

(***************************************************************************)
(* BBIT, from the source line to the flag                                  *)
(***************************************************************************)
\* The last iteration executed the BBIT of the source the file was assembled
\* from
BbitRan == LastStepWas("BBIT") /\ program.src # <<>>

BbitLine ==
    program.src[CHOOSE i \in 1..Len(program.src) : program.src[i].core = "BBIT"]
ByteIndexAsked == BbitLine.args[2].n
BitIndexAsked == BbitLine.args[3].n

\* The 4 bytes of the operand before the instruction: the register named,
\* or the memory at the address the register holds
BbitOperand ==
    IF BbitLine.args[1].kind = "name" THEN trail[1].regs[BbitLine.args[1].name]
    ELSE Drive_read(trail[1].memory,
             Register_value(trail[1].regs, BbitLine.args[1].name), 4)

BitOfOperand(byte_index, bit_index) ==
    BitField(BbitOperand[byte_index + 1], bit_index, bit_index + 1) = 1

\* C24: after BBIT operand, byte-index, bit-index has been assembled and
\* executed, Z is the value of bit bit-index of byte byte-index of the
\* 4-byte operand, for every byte index 0..3 and bit index 0..7.
C24_BbitSelects ==
    BbitRan => (FlagNow("Z") = BitOfOperand(ByteIndexAsked, BitIndexAsked))

\* C24, what happens instead: the bit tested is the one whose number is the
\* byte index, whatever the bit index of the line.
C24_BbitByteIndexTwice ==
    BbitRan => (FlagNow("Z") = BitOfOperand(ByteIndexAsked, ByteIndexAsked))

\* C24, what happens instead: the bit index is not in the bytes emitted.
C24_BitIndexDropped ==
    BbitRan =>
        PySlice(trail[1].instr, 0, 2)
            = <<BbitCode[ByteIndexAsked],
                assemble_op_add(
                    Argument(IF BbitLine.args[1].kind = "name" THEN "reg" ELSE "ind",
                             RegPointer[BbitLine.args[1].name], 0),
                    SecInt(ByteIndexAsked))>>

(***************************************************************************)
(* The pairing (register, memory address)                                  *)
(***************************************************************************)
\* The last iteration executed the second line of a source that moves a
\* register to a memory address
StoreRan ==
    /\ program.src \in StoreSources
    /\ LastStepWas("MOV")
    /\ Len(trail) = 2 /\ trail[2].kind = "MOV"

StoredRegister == program.src[2].args[1].name
StoreAddress == program.src[2].args[2].n
StoreWidth == IF RegSize[StoredRegister] = 4 THEN 4 ELSE 1

\* C25: for the pairing (register, memory address) the assembler emits the
\* destination address, 2 bytes, low byte first, among the givens of the
\* instruction, and the executed MOV stores the `width` bytes of the
\* register at that address.
C25_RegisterToMemory ==
    StoreRan =>
        /\ \E o \in 1..3 : PySlice(trail[1].instr, o, o + 2) = AddressBytes(StoreAddress)
        /\ Drive_read(memory, StoreAddress, StoreWidth)
               = PySlice(trail[1].regs[StoredRegister], 0, StoreWidth)

\* C25, what happens instead: the instruction is the opcode and an op-add
\* byte alone, the address is read as the pointer of a register, and the
\* MOV writes that register of the operand width; memory is as it was.
C25_AddressTakenAsPointer ==
    StoreRan =>
        /\ instruction_length(trail[1].regs, trail[1].instr) = IntResult(2, "")
        /\ memory = trail[1].memory
        /\ LET named == register_pointers(StoreAddress)
               target == sized_op_add_register(RegOpAdd[named], StoreWidth)
           IN  PySlice(regs[target], 0, StoreWidth)
                   = PySlice(trail[1].regs[StoredRegister], 0, StoreWidth)

\* C25, what happens instead, in the assembler: a line of this pairing is
\* assembled to the opcode and the op-add byte when the address is the
\* pointer of a register, and raises KeyError when it is not.
C25_NoAddressEmitted ==
    (/\ emitted # NotAssembled
     /\ line.core \in TwoArgCores /\ line.suffix \in {"", "B", "W"}
     /\ IsRegister(line.args[1]) /\ line.args[2].kind = "mem") =>
        IF HasPointer(line.args[2].n)
        THEN emitted.status = "ok" /\ Len(emitted.bytes) = PrefixBytes + 2
        ELSE emitted.status = "KeyError"

(***************************************************************************)
(* The stack layout of PUSH                                                *)
(***************************************************************************)
PushRan == LastStepWas("PUSH")

PushWidth == StackWidth(Executed)
PushValue == get_op_add_primary(Before, Executed, PushWidth).v
PushBase == Register_value(trail[1].regs, "SP")
AddressSpace == Pow2(16)
PushTop == (PushBase + AddressSpace - PushWidth) % AddressSpace

\* The bytes at the addresses a .. a + PushWidth - 1 are those of mem0
KeptFrom(a, mem0) ==
    \A k \in 0..(PushWidth - 1) : MemCell(memory, a + k) = MemCell(mem0, a + k)

\* C26: PUSH of an operand v of width w with SP = s leaves SP = (s - w) mod
\* 2^16 and the bytes of v, low byte first, at the addresses s - w .. s - 1,
\* leaves the bytes at s and above as they were, and so leaves the stack as
\* the push of CALL would have.
C26_PushLayout ==
    PushRan =>
        /\ Register_value(regs, "SP") = PushTop
        /\ Drive_read(memory, PushTop, PushWidth) = PushValue
        /\ KeptFrom(PushBase, trail[1].memory)
        /\ memory = push(Before, PushValue).memory
        /\ regs["SP"] = push(Before, PushValue).regs["SP"]

\* C26, the stack pointer alone: SP = (s - w) mod 2^16, as after push.
C26_PushStackPointer ==
    PushRan =>
        /\ Register_value(regs, "SP") = PushTop
        /\ regs["SP"] = push(Before, PushValue).regs["SP"]

\* C26, what happens instead: the operand is written at s, the value of SP
\* before the instruction, over the bytes at s and above.
C26_PushWritesAtBase ==
    PushRan =>
        memory = MemWrite(Before, PushBase, PushValue).memory

(***************************************************************************)
(* CALL: the frame pushed and the registers left                           *)
(***************************************************************************)
CallRan == LastStepWas("CALL")

\* The machine as execute_instruction leaves it, before the loop of run
\* looks at H
AfterCall == execute_instruction(Before, trail[1].instr)

CallAddress == Register_value(trail[1].regs, "IP")
CallLength ==
    (IF IsConditional(trail[1].instr) THEN 1 ELSE 0) + base_length(ByteAt(Executed, 0))
CallTarget ==
    IF mnemonic_suffix(ByteAt(Executed, 0)) = "MEM"
    THEN BytesValue(PySlice(Executed, 1, 3))
    ELSE BytesValue(read_op_add(Before, ByteAt(Executed, 1), "p", 2).v)

\* The saved registers as they were before the CALL, the last one pushed
\* first: the bytes from the new SP upwards
RECURSIVE SavedBytes(_, _)
SavedBytes(rs, names) ==
    IF names = <<>> THEN <<>>
    ELSE SavedBytes(rs, Tail(names)) \o rs[names[1]]

CallStackPointer ==
    (Register_value(trail[1].regs, "SP") + AddressSpace - FrameSize) % AddressSpace

CallRegisters ==
    /\ Register_value(AfterCall.regs, "RI") = (CallAddress + CallLength) % AddressSpace
    /\ Register_value(AfterCall.regs, "SP") = CallStackPointer
    /\ Register_value(AfterCall.regs, "RS") = CallStackPointer
    /\ Register_value(AfterCall.regs, "IP") = CallTarget
    /\ get_flag(AfterCall.regs, "H")

CallFrame ==
    Drive_read(AfterCall.memory, CallStackPointer, FrameSize)
        = SavedBytes(trail[1].regs, save_on_call)

\* C27: an executed CALL at address a of encoded length L (the conditional
\* prefix included) pushes GA, GB, GC, GD, FL, RI and RS in that order at
\* their declared widths, and leaves RI = a + L, RS = SP = the SP before the
\* CALL minus the sum of the saved widths, IP = the target of the call, and
\* H set.
C27_CallEffect == CallRan => (CallFrame /\ CallRegisters)

\* C27, the registers alone.
C27_CallRegisters == CallRan => CallRegisters

\* C27, for a frame that lies inside the memory as the load left it.
C27_CallFrameInside ==
    (CallRan /\ CallStackPointer + FrameSize <= trail[1].memory.len) => CallFrame

(***************************************************************************)
(* The loop of run after an instruction that sets H                        *)
(***************************************************************************)
JumpKinds == {"JMP", "JREL", "CALL", "RET"}

\* The machine as execute_instruction left it in the iteration before the
\* last one
AfterEarlier ==
    execute_instruction(MachineOf(trail[2].regs, trail[2].memory), trail[2].instr)

\* The iteration before the last one executed a jump and raised nothing
JumpedEarlier == Len(trail) = 2 /\ trail[2].kind \in JumpKinds

\* The loop of run is about to fetch
AboutToFetch == vmstage = "running" /\ ~halted /\ crashed = ""

\* C28: every executed JMP, JREL, CALL or RET sets H and is followed by a
\* fetch at exactly the IP it wrote, nothing added, with H clear again at
\* that fetch; and H is never set when an instruction is fetched.
C28_NoAutoAdvance ==
    /\ AboutToFetch => ~FlagNow("H")
    /\ \A i \in 1..Len(trail) : ~get_flag(trail[i].regs, "H")
    /\ JumpedEarlier =>
           /\ get_flag(AfterEarlier.regs, "H")
           /\ trail[1].regs["IP"] = AfterEarlier.regs["IP"]
           /\ trail[1].instr
                  = Drive_read(trail[1].memory,
                               Register_value(AfterEarlier.regs, "IP"), FetchLength)
    /\ (trail # <<>> /\ trail[1].kind \in JumpKinds /\ AboutToFetch) =>
           /\ get_flag(execute_instruction(Before, trail[1].instr).regs, "H")
           /\ regs["IP"] = execute_instruction(Before, trail[1].instr).regs["IP"]

\* C28 witness: a CALL was executed and the instruction fetched at its
\* target, a RET, has been executed in turn and has sent the machine back
\* to the address after the CALL.
C28_Witness ==
    /\ JumpedEarlier
    /\ trail[2].kind = "CALL" /\ trail[1].kind = "RET"
    /\ AboutToFetch
    /\ Register_value(trail[1].regs, "IP") = BytesValue(PySlice(trail[2].instr, 1, 3))
    /\ Register_value(regs, "IP")
           = Register_value(trail[2].regs, "IP") + base_length(ByteAt(trail[2].instr, 0))

(***************************************************************************)
(* The operation counter when run stops.  trail[1].nth is the number of    *)
(* iterations of the loop begun so far, the last one included.             *)
(***************************************************************************)
Stopped == halted /\ trail # <<>> /\ trail[1].kind = "HLT"
InstructionsExecuted == trail[1].nth

\* C29: the HLT that stops the machine goes through the advance of IP and
\* the increment of the operation counter like every other instruction:
\* when run stops, the operation counter is the number of instructions
\* executed, the HLT included, and IP has passed the HLT.
C29_HaltCounted ==
    Stopped =>
        /\ operation_counter = InstructionsExecuted
        /\ Register_value(regs, "IP")
               = Register_value(trail[1].regs, "IP")
                     + instruction_length(trail[1].regs, trail[1].instr).n

\* C29, what happens instead: the halted flag is tested first, so the HLT
\* is not counted and IP stays on it.
C29_HaltNotCounted ==
    Stopped =>
        /\ operation_counter = InstructionsExecuted - 1
        /\ regs = trail[1].regs

\* C29, for the instructions that do not stop the machine: each goes through
\* the increment of the counter.
C29_OthersCounted ==
    (trail # <<>> /\ ~halted /\ crashed = "") => operation_counter = trail[1].nth

(***************************************************************************)
(* Condition specification: a Machine whose FL has been written executes   *)
(* a file that holds a HLT under a conditional prefix, and a HLT after it. *)
(* The first iteration halts the machine exactly when check_condition      *)
(* returned true.                                                          *)
(***************************************************************************)
\* The values of FL: every combination of Z, C, N and H
FlagBytes ==
    {z + 2 * c + 4 * n + 128 * h : z \in 0..1, c \in 0..1, n \in 0..1, h \in 0..1}

CondFiles ==
    {[head |-> <<CondCode[c], 1, 1>>, n |-> 3, src |-> <<>>] : c \in CondCores}

CondInit ==
    /\ program \in CondFiles
    /\ regs \in {[ZeroRegs EXCEPT !["FL"] = <<f>>] : f \in FlagBytes}
    /\ written = {}
    /\ memory = NewMemory
    /\ halted = FALSE
    /\ crashed = ""
    /\ operation_counter = 0
    /\ vmstage = "constructed"
    /\ trail = <<>>
    /\ frames = NoFrames

\* The first iteration of the loop has been made, on the prefixed HLT
CondChecked == vmstage = "running" /\ Len(trail) = 1 /\ program \in CondFiles

CheckedMnemonic == mnemonic_core(ByteAt(trail[1].instr, 0))
CheckedZ == get_flag(trail[1].regs, "Z")
CheckedN == get_flag(trail[1].regs, "N")

\* What check_condition returned: the HLT was executed, or skipped
ConditionHeld == trail[1].kind = "HLT" /\ halted

\* The table of the conditions
ConditionTable(mnemonic, z, n) ==
    CASE mnemonic = "IFZ" -> z
      [] mnemonic = "IFNZ" -> ~z
      [] mnemonic = "IFN" -> n
      [] mnemonic = "IFNN" -> ~n
      [] mnemonic = "IFGT" -> ~n /\ ~z
      [] mnemonic = "IFLT" -> n /\ ~z
      [] mnemonic = "IFGTE" -> ~n \/ z
      [] mnemonic = "IFLTE" -> n \/ z

\* C30: for each combination of Z and N, check_condition returns IFZ = Z,
\* IFNZ = not Z, IFN = N, IFNN = not N, IFGT = not N and not Z, IFLT = N and
\* not Z, IFGTE = not N or Z, IFLTE = N or Z, whatever C and H are; IFGT and
\* IFLTE, and IFLT and IFGTE, are exact complements.
C30_ConditionTable ==
    CondChecked =>
        /\ ConditionHeld = ConditionTable(CheckedMnemonic, CheckedZ, CheckedN)
        /\ ~ConditionHeld => (trail[1].kind = "skip" /\ ~halted)
        /\ \A c \in CondCores :
               check_condition(trail[1].regs, c) = ConditionTable(c, CheckedZ, CheckedN)
        /\ check_condition(trail[1].regs, "IFGT") = ~check_condition(trail[1].regs, "IFLTE")
        /\ check_condition(trail[1].regs, "IFLT") = ~check_condition(trail[1].regs, "IFGTE")

\* C30 witness: IFGTE has been checked with Z, C, N and H all set, and held.
C30_Witness ==
    /\ CondChecked
    /\ CheckedMnemonic = "IFGTE"
    /\ trail[1].regs["FL"] = <<135>>
    /\ ConditionHeld

(***************************************************************************)
(* C31: the bits of the opcode that give the width and the form            *)
(***************************************************************************)
DataOpcode == ByteAt(Executed, 0)
PrefixLength == IF IsConditional(trail[1].instr) THEN 1 ELSE 0

\* 4 when bit k of the opcode is set, 1 when it is clear
WidthAtBit(k) == IF BitField(DataOpcode, k, k + 1) = 1 THEN 4 ELSE 1

\* The machine a MOV of the given width and form leaves
MovWith(width, form) ==
    MovContent(Before, Executed, width, form,
               get_op_add_primary(Before, Executed, width))

\* The length of the instruction for operands of the given width
LengthWith(width) ==
    LengthOf(PrefixLength, DataOpcode,
        IF uses_full_op_add(DataOpcode)
        THEN op_add_givens_length(trail[1].regs, ByteAt(Executed, 1), width)
        ELSE IntResult(0, ""))

\* The iteration executed a MOV of that width and form and advanced IP by
\* the length of an instruction of that width
MovDecodedAs(width, form) ==
    /\ regs = AdvanceBy(MovWith(width, form), LengthWith(width)).regs
    /\ memory = MovWith(width, form).memory

\* The iteration advanced IP by the length of an instruction of that width
LengthDecodedAs(width) ==
    /\ LengthWith(width).err = ""
    /\ Register_value(regs, "IP") =
           (Register_value(trail[1].regs, "IP") + LengthWith(width).n) % Pow2(16)

DataStepRan == \E k \in {"MOV", "ADD", "SUB", "CMP"} : LastStepWas(k)

AliasChains ==
    UNION {UNION {{<<G, p[1], c[1]>> : c \in RegChildren[p[1]]} : p \in RegChildren[G]}
              : G \in RegNames}

\* bts is old with the bytes of v put at offset k, and nothing else changed
PatchedAt(bts, old, k, v) ==
    /\ Len(bts) = Len(old)
    /\ \A i \in 1..Len(old) :
           bts[i] = IF i > k /\ i <= k + Len(v) THEN v[i - k] ELSE old[i]

\* write_to_register(C, data) turned rs into rs1: C holds the data, and P and
\* G hold it at the offset of C and are otherwise as they were
InnermostWritten(rs, rs1, G, P, C) ==
    /\ PatchedAt(rs1[P], rs[P], ChildOffset(P, C), rs1[C])
    /\ PatchedAt(rs1[G], rs[G], ChildOffset(G, P) + ChildOffset(P, C), rs1[C])

AddSubRan ==
    /\ LastStepWas("ADD") \/ LastStepWas("SUB")
    /\ Form(ByteAt(Executed, 0)) \in 0..2

\* The bytes the destination holds after the instruction, as a number
WrittenValue == BytesValue(Destination(MachineOf(regs, memory), Executed).v)

\* The operands read as signed integers before the instruction
SignedSource == signed_int(Source(Before, Executed).v)
SignedDestination == signed_int(Destination(Before, Executed).v)

\* C33: after ADD or SUB, Z is set iff the value of the width of the
\* instruction actually written to the destination is zero, also when the
\* signed sum falls outside the width (byte-width -128 + -128).
C33_ZeroOfWritten == AddSubRan => (FlagNow("Z") = (WrittenValue = 0))

\* C33, the flag as it is set: Z is set iff the signed sum (ADD) or the
\* signed difference (SUB) of the operands is zero, before it is cut to the
\* width.
C33_ZeroOfSum ==
    AddSubRan =>
        FlagNow("Z") = IF LastStepWas("ADD")
                       THEN SignedSource + SignedDestination = 0
                       ELSE SignedSource = SignedDestination

\* C33, where the two differ: the byte-width ADD of -128 and -128 writes
\* 0x00 and leaves Z clear; everywhere else Z agrees with the value written.
C33_WrapLeavesZClear ==
    (AddSubRan /\ FlagNow("Z") # (WrittenValue = 0)) =>
        /\ LastStepWas("ADD")
        /\ OperandSize(ByteAt(Executed, 0)) = 1
        /\ SignedSource = 0 - 128
        /\ SignedDestination = 0 - 128
        /\ WrittenValue = 0
        /\ ~FlagNow("Z")

(***************************************************************************)
(* C34: the label definitions of pass 1 and of pass 2                      *)
(***************************************************************************)
\* The names pass 2 has recorded an offset for
RecordedLabels == {d[1] : d \in asm.ref_destinations}

\* The source defines a label after white space
DefinesIndented == \E n \in 1..Len(source) : source[n].indent /\ source[n].label # ""

\* C34: every label definition pass 2 records an offset for was registered
\* in pass 1, so a label defined on an indented line is duplicate-checked
\* and can be referenced like any other label.
C34_SameLabels == RecordedLabels \subseteq asm.named_references

\* C34, for the sources whose label definitions all start their line.
C34_SameLabelsUnindented == ~DefinesIndented => C34_SameLabels

\* C34, the reference: a jump to a label defined only after white space is
\* not taken as a reference, and the assembly fails on its line before the
\* definition is reached.
C34_IndentedNotReferable ==
    (/\ source = <<Op("JMP", "", <<RName("END")>>), Hlt, Indented(Lbl("END", Hlt))>>
     /\ stage = "exit")
    => /\ raised # ""
       /\ asm.named_references = {}
       /\ asm.line_counter = 0
       /\ files.dest = hist.dest0

(***************************************************************************)
(* C35: the op-add byte as the assembler builds it and as the machine      *)
(* decodes it                                                              *)
(***************************************************************************)
\* A two-operand line was assembled whose second operand is a register or
\* an indirection: its instruction carries an op-add byte
OpAddLine ==
    /\ emitted.status = "ok"
    /\ line.core \in TwoArgCores
    /\ line.args[2].kind \in {"name", "at"}

EmittedOpAdd == emitted.bytes[PrefixBytes + 2]
EmittedWidth == IF BitField(emitted.bytes[PrefixBytes + 1], 0, 1) = 1 THEN 4 ELSE 1

\* The literal-to-indirect form, whose op-add byte is written out in
\* assemble_instruction and names the secondary operand alone
HardCodedOpAdd == BitField(emitted.bytes[PrefixBytes + 1], 1, 3) = 1

\* The kind of operand the source asks for
KindAsked(raw) ==
    CASE raw.kind = "name" -> "register"
      [] raw.kind = "at" -> "memory"
      [] raw.kind = "mem" -> "given_address"
      [] OTHER -> IF raw.n = 0 THEN "null" ELSE "given_literal"

\* The kind of operand the machine decodes
KindDecoded(p) == IF p.type = "special" THEN p.name ELSE p.type

\* The operand the source asks for and the decoded operand p, whose op-add
\* register code is code, agree
OperandAgrees(raw, p, code) ==
    /\ p.err = ""
    /\ KindDecoded(p) = KindAsked(raw)
    /\ raw.kind \in {"name", "at"} => code = RegOpAdd[raw.name]

PrimaryAgrees ==
    OperandAgrees(line.args[1], op_add_primary(ZeroRegs, EmittedOpAdd, EmittedWidth),
                  BitField(EmittedOpAdd, 3, 6))
SecondaryAgrees ==
    OperandAgrees(line.args[2], op_add_secondary(ZeroRegs, EmittedOpAdd, EmittedWidth),
                  BitField(EmittedOpAdd, 0, 3))

\* C35: for every primary operand in {register, indirect, non-zero literal,
\* zero literal, memory address} and secondary in {register, indirect}, the
\* op-add byte the assembler builds (assemble_op_add, and the byte of the
\* literal-to-indirect form) is decoded by op_add_primary and
\* op_add_secondary to the same operand kinds and the same op-add register
\* codes.
C35_OpAddAgreement ==
    OpAddLine => /\ SecondaryAgrees
                 /\ ~HardCodedOpAdd => PrimaryAgrees

\* C35, the bytes assemble_op_add builds.
C35_BuiltByteAgrees ==
    (OpAddLine /\ ~HardCodedOpAdd) => (PrimaryAgrees /\ SecondaryAgrees)

\* C35, the byte of the literal-to-indirect form: it agrees for the
\* indirection through a register whose pointer is its op-add code, and for
\* the indirection through GBL (pointer 11, op-add code 1) it is 195, which
\* the machine decodes as the register of code 3.
C35_HardCodedByte ==
    (OpAddLine /\ HardCodedOpAdd) =>
        /\ EmittedOpAdd = RegPointer[line.args[2].name] + 184
        /\ SecondaryAgrees = (RegPointer[line.args[2].name] = RegOpAdd[line.args[2].name])
        /\ line.args[2].name = "GBL" =>
               /\ EmittedOpAdd = 195
               /\ op_add_secondary(ZeroRegs, EmittedOpAdd, EmittedWidth).type = "register"
               /\ BitField(EmittedOpAdd, 0, 3) = 3

(***************************************************************************)
(* C36: the whole alias tree after a write                                 *)
(***************************************************************************)
\* Every alias of the register file rs holds the slice of its parent
TreeConsistent(rs) ==
    \A R \in RegNames :
        \A c \in RegChildren[R] : rs[c[1]] = AliasSlice(rs, R, c[1])

\* C36: after any write_to_register call on any register of an alias tree,
\* every register of that tree is consistent with the root: every
\* descendant of the written register (grandchildren included) and every
\* other alias that overlaps the written bytes holds the corresponding
\* slice of the new value.
C36_TreeConsistent == TreeConsistent(regs)

\* C36, without a write to the root of the chain: while only GAX, GAL and
\* GAH are written the tree stays consistent.
C36_BelowRootConsistent ==
    written \subseteq {"GAX", "GAL", "GAH"} => TreeConsistent(regs)

\* C36, the write that breaks it: a write to GA reaches its child GAX and
\* leaves the grandchildren GAL and GAH as they were.
C36_GrandchildrenKept ==
    [][\A data \in {d \in WriteData : d.kind = "bytes" \/ d.v >= 0} :
           (/\ written' = written \cup {"GA"}
            /\ regs'["GA"] = Register_write(RegSize["GA"], data)
            /\ regs' = write_to_register(regs, "GA", data))
           => /\ regs'["GAX"] = AliasSlice(regs', "GA", "GAX")
              /\ regs'["GAL"] = regs["GAL"]
              /\ regs'["GAH"] = regs["GAH"]]_<<regs, written>>

(***************************************************************************)
(* C37: the aliases of the registers RET restores                          *)
(***************************************************************************)
RestoredRegisters == {save_on_call[i] : i \in 1..Len(save_on_call)}

\* Each child alias of a restored register holds the slice of its parent
RestoredAliasesAgree(rs) ==
    \A R \in RestoredRegisters :
        \A c \in RegChildren[R] : rs[c[1]] = AliasSlice(rs, R, c[1])

\* C37: the register-aliasing invariant holds after every executed
\* instruction, RET included: after RET restores GA, GB, GC, GD, FL, RI and
\* RS from the stack, each child alias of a restored register equals the
\* slice of its parent at the recorded offset.
C37_AliasesAfterRet ==
    (trail # <<>> /\ crashed = "") => RestoredAliasesAgree(regs)

\* C37, the instructions other than RET: they keep the aliases of these
\* registers in agreement if they were.
C37_OthersKeepAliases ==
    (trail # <<>> /\ crashed = "" /\ trail[1].kind # "RET"
        /\ RestoredAliasesAgree(trail[1].regs))
    => RestoredAliasesAgree(regs)

\* C37, what RET does: it leaves every child alias of a restored register
\* as it was before the RET, whatever the parent is restored to.
C37_RetKeepsChildren ==
    LastStepWas("RET") =>
        \A R \in RestoredRegisters :
            \A c \in RegChildren[R] : regs[c[1]] = trail[1].regs[c[1]]

(***************************************************************************)
(* Specifications                                                          *)
(***************************************************************************)
vars == <<bytesVars, regVars, encVars, asmVars, vmVars>>

BytesNext == NewByteArray /\ UNCHANGED <<regVars, encVars, asmVars, vmVars>>
SpecBytesInit == BytesInit /\ RegInit /\ EncIdle /\ AsmIdle /\ VMIdle
SpecBytes == SpecBytesInit /\ [][BytesNext]_vars

RegNext == WriteToRegister /\ UNCHANGED <<bytesVars, encVars, asmVars, vmVars>>
SpecRegInit == RegInit /\ BytesIdle /\ EncIdle /\ AsmIdle /\ VMIdle
SpecReg == SpecRegInit /\ [][RegNext]_vars

EncNext == AssembleLine /\ UNCHANGED <<bytesVars, regVars, asmVars, vmVars>>
SpecEncInit == EncInit /\ BytesIdle /\ RegInit /\ AsmIdle /\ VMIdle
SpecEnc == SpecEncInit /\ [][EncNext]_vars

AsmOthers == <<bytesVars, regVars, encVars, vmVars>>
AsmNext ==
    \/ FindReferences /\ UNCHANGED AsmOthers
    \/ AssembleNextLine /\ UNCHANGED AsmOthers
    \/ PatchAndRename /\ UNCHANGED AsmOthers
SpecAsmInit == AsmInit /\ BytesIdle /\ RegInit /\ EncIdle /\ VMIdle
SpecAsm == SpecAsmInit /\ [][AsmNext]_vars

VMOthers == <<bytesVars, encVars, asmVars>>
VMNext ==
    \/ ExecuteFile /\ UNCHANGED VMOthers
    \/ StepSkip /\ UNCHANGED VMOthers
    \/ StepPush /\ UNCHANGED VMOthers
    \/ StepPop /\ UNCHANGED VMOthers
    \/ StepMov /\ UNCHANGED VMOthers
    \/ StepAddSub /\ UNCHANGED VMOthers
    \/ StepCmp /\ UNCHANGED VMOthers
    \/ StepJump /\ UNCHANGED VMOthers
    \/ StepCall /\ UNCHANGED VMOthers
    \/ StepRet /\ UNCHANGED VMOthers
    \/ StepHlt /\ UNCHANGED VMOthers
    \/ StepNop /\ UNCHANGED VMOthers
    \/ StepShift /\ UNCHANGED VMOthers
    \/ StepBbit /\ UNCHANGED VMOthers
SpecVMInit == VMInit /\ RegInit /\ BytesIdle /\ EncIdle /\ AsmIdle
SpecVM == SpecVMInit /\ [][VMNext]_vars

CondNext ==
    \/ ExecuteFile /\ UNCHANGED VMOthers
    \/ StepSkip /\ UNCHANGED VMOthers
    \/ StepHlt /\ UNCHANGED VMOthers
SpecCondInit == CondInit /\ BytesIdle /\ EncIdle /\ AsmIdle
SpecCond == SpecCondInit /\ [][CondNext]_vars
====
